---- MODULE Spec2Model ----
(***************************************************************************)
(* A model of the Flexpilot / CodeArt editor extension:                    *)
(*   - the prompt-window assembler of the inline completion provider       *)
(*     (token budget and truncation),                                      *)
(*   - the completion cache and the debounced request life cycle,          *)
(*   - the configuration store, the configure-model command, the session   *)
(*     manager and the provider registry.                                  *)
(* Each part has its own specification over its own variables; the other   *)
(* variables rest at their initial values.                                 *)
(***************************************************************************)
EXTENDS Integers, Sequences, FiniteSets, TLC

(***************************************************************************)
(* Bounds of the model.                                                    *)
(***************************************************************************)
\* longest prefix / suffix token sequence enumerated (besides the scenario lengths)
MaxTokens == 4
\* longest header token sequence enumerated (besides the scenario length)
MaxHeaderTokens == 2
\* largest small prompt token limit enumerated (besides the scenario limit)
MaxPromptLimit == 5

(***************************************************************************)
(* Generic helpers.                                                        *)
(***************************************************************************)
Min(a, b) == IF a < b THEN a ELSE b

Max(a, b) == IF a > b THEN a ELSE b

\* Array.prototype.slice(start, end) on a sequence, 0-based, with JavaScript's
\* treatment of negative and out-of-range indices.
JsSlice(s, start, end) ==
  LET n    == Len(s)
      from == IF start < 0 THEN Max(n + start, 0) ELSE Min(start, n)
      to   == IF end < 0 THEN Max(n + end, 0) ELSE Min(end, n)
  IN  SubSeq(s, from + 1, to)

\* Array.prototype.slice(start): the end defaults to the length.
JsSliceFrom(s, start) == JsSlice(s, start, Len(s))

(***************************************************************************)
(* PROMPT WINDOW ASSEMBLER (InlineCompletionProvider.generateCompletions)  *)
(***************************************************************************)
VARIABLES
  asmPc,            \* "encoded" -> "truncated" -> "assembled"
  promptTokenLimit, \* min(maxTokenUsage, contextWindow) - maxOutputTokens
  weightQuarters,   \* contextPrefixWeight, in quarters (0, 1/4, 1/2, 3/4, 1)
  headerTokens,     \* provider.encode(header + "\n\n")
  encPrefixTokens,  \* provider.encode(prefixText.trimStart()), as encoded
  encSuffixTokens,  \* provider.encode(suffixText.trimEnd()), as encoded
  prefixTokens,     \* the local prefixTokens
  suffixTokens,     \* the local suffixTokens
  maxPrefixLength,  \* the local maxPrefixLength (0 until computed)
  maxSuffixLength   \* the local maxSuffixLength (0 until computed)

\* the completion cache and the document it is consulted for
VARIABLES
  docText,      \* the text of the document
  cursor,       \* offset of the position the host asks completions for
  cachePrefix,  \* InlineCompletionProvider.cachePrefix
  cacheSuffix,  \* InlineCompletionProvider.cacheSuffix
  cacheResult   \* what checkCompletionCache returned for docText and cursor
                \* (kind "unchecked" before the call, "miss" for undefined)

\* the debounced requests of the inline completion provider
VARIABLES
  requests,        \* the calls of provideInlineCompletionItems, in order of arrival
  statusState,     \* statusIcon.state: "enabled" or "disabled"
  statusText,      \* the icon shown: "default", "disabled" or "loading"
  providerPresent, \* the registry holds a provider for "Inline Completion"
  langDisabled,    \* the document's language is in completions.disabled.languages
  cacheFilled,     \* a generation has stored a cache entry
  allInWindow,     \* history: every call so far went to the timer, and arrived
                   \* before the timer of the call before it had fired
  hostCancelled    \* history: at every call so far, the token of each earlier call
                   \* that had not been answered was already cancelled

\* the configuration store, the configure-model command and the session manager
VARIABLES
  configs,        \* globalState "model.providers.<nickname>": the provider id of the
                  \* stored ModelConfig, or NoConfig
  prefs,          \* globalState "usage.preferences.<location>": the stored preference
  signals,        \* modelProvidersUpdated events fired and not handled yet
  op,             \* the operation of the configure-model command under way
  clearing,       \* the keys clearGlobalState has still to remove
  apiKeys,        \* the apiKey field of each stored ModelConfig, or NoConfig
  caught          \* the error the catch around configure logged and notified in
                  \* the command's last operation: "none", "cancelled" or "test"

\* the request handlers the host calls
VARIABLES
  calls           \* the handler calls, in order of arrival

\* the prompt of a generation
VARIABLES
  pDoc,           \* the text of the document, a live reference
  pLimit,         \* the setting codeart.completions.maxTokenUsage, as the
                  \* promptTokenLimit it gives
  pCache,         \* this.cachePrefix and this.cacheSuffix
  pGen,           \* the second generation, under way or completed
  pFirst          \* the first generation, once it has completed

\* one call of provideInlineCompletionItems at a time, with its texts
VARIABLES
  svDoc,          \* the text of the document, a live reference
  svCache,        \* this.cachePrefix and this.cacheSuffix
  svCall,         \* the call followed: its position, where it stands, its answer
  svIcon,         \* statusIcon.state: "enabled" or "disabled"
  svBlocked       \* the early return generateCompletions takes: "language" (the
                  \* language is disabled), "provider" (none is bound) or "no"

\* the session manager
VARIABLES
  authSession,    \* what vscode.authentication.getSession answers: "user" or "none"
  sessionRuns,    \* the runs of handleSessionChange, in the order of their events
  storedSession,  \* storage.session: "unset", "none" or "user"
  instances,      \* the session features whose static instance is set
  lastLookup      \* history: the answer of the getSession that resolved last

\* the provider registry
VARIABLES
  modelProviders, \* ModelProviderManager.modelProviders, the resolved-provider map
  inits,          \* the initialize() calls of "Inline Completion" adapters in flight,
                  \* in the order of their passes
  lastPass        \* history of the updateProviders pass that started last

asmVars == <<asmPc, promptTokenLimit, weightQuarters, headerTokens, encPrefixTokens,
             encSuffixTokens, prefixTokens, suffixTokens, maxPrefixLength,
             maxSuffixLength>>

cacheVars == <<docText, cursor, cachePrefix, cacheSuffix, cacheResult>>

reqVars == <<requests, statusState, statusText, providerPresent, langDisabled,
             cacheFilled, allInWindow, hostCancelled>>

\* for each part, the variables of the other parts, which its actions leave alone
storeVars == <<configs, prefs, signals, op, clearing, apiKeys, caught>>

regVars == <<modelProviders, inits, lastPass>>

handlerVars == <<calls>>

promptVars == <<pDoc, pLimit, pCache, pGen, pFirst>>

serveVars == <<svDoc, svCache, svCall, svIcon, svBlocked>>

sessionVars == <<authSession, sessionRuns, storedSession, instances, lastLookup>>

asmOthers == <<cacheVars, reqVars, storeVars, regVars, handlerVars, promptVars,
                serveVars, sessionVars>>

cacheOthers == <<asmVars, reqVars, storeVars, regVars, handlerVars, promptVars,
                serveVars, sessionVars>>

reqOthers == <<asmVars, cacheVars, storeVars, regVars, handlerVars, promptVars,
                serveVars, sessionVars>>

storeOthers == <<asmVars, cacheVars, reqVars, regVars, handlerVars, promptVars,
                serveVars, sessionVars>>

regOthers == <<asmVars, cacheVars, reqVars, handlerVars, promptVars,
                serveVars, sessionVars>>

handlerOthers == <<asmVars, cacheVars, reqVars, storeVars, regVars, promptVars,
                serveVars, sessionVars>>

promptOthers == <<asmVars, cacheVars, reqVars, storeVars, regVars, handlerVars,
                serveVars, sessionVars>>

serveOthers == <<asmVars, cacheVars, reqVars, storeVars, regVars, handlerVars,
                 promptVars, sessionVars>>

sessionOthers == <<asmVars, cacheVars, reqVars, storeVars, regVars, handlerVars,
                   promptVars, serveVars>>

maxOutputTokens == 500

\* contextWindow of the models allowed for completion
ContextWindows == {4000, 31500}

\* values of the setting codeart.completions.maxTokenUsage: those that leave a
\* small prompt budget, one that leaves 100, and one above every context window
MaxTokenUsageValues ==
  {maxOutputTokens + k : k \in 1..MaxPromptLimit} \cup {600, 40000}

\* values of the setting codeart.completions.contextPrefixWeight, times four
WeightQuarterValues == 0..4

PrefixLengths == (0..MaxTokens) \cup {200}

SuffixLengths == (0..MaxTokens) \cup {10}

HeaderLengths == (1..MaxHeaderTokens) \cup {10}

\* token sequences: the tokenizer is external, the tokens are told apart by position
PrefixTokenSeq(n) == [i \in 1..n |-> i]

SuffixTokenSeq(n) == [i \in 1..n |-> 0 - i]

HeaderTokenSeq(n) == [i \in 1..n |-> 0]

PromptTokenLimit(maxTokenUsage, contextWindow) ==
  Min(maxTokenUsage, contextWindow) - maxOutputTokens

\* Math.floor(contextPrefixWeight * promptTokenLimit) - headerTokens.length
MaxPrefixLengthNoHeader(limit, wq, headerLen) == (wq * limit) \div 4

MaxPrefixLength(limit, wq, headerLen) == ((wq * limit) \div 4) - headerLen

MaxSuffixLength(limit, maxPrefix, headerLen) == limit - maxPrefix - headerLen

\* the if / else-if chain that truncates prefixTokens and suffixTokens
TruncateTokensKeepAll(prefix, suffix, limit, maxPrefix, maxSuffix) ==
  [prefix |-> prefix, suffix |-> suffix]

TruncateTokens(prefix, suffix, limit, maxPrefix, maxSuffix) ==
  IF Len(prefix) > maxPrefix /\ Len(suffix) > maxSuffix
  THEN [prefix |-> JsSliceFrom(prefix, 0 - maxPrefix),
        suffix |-> JsSlice(suffix, 0, maxSuffix)]
  ELSE IF Len(prefix) > maxPrefix /\ Len(suffix) <= maxSuffix
  THEN [prefix |-> JsSliceFrom(prefix, Len(suffix) - limit),
        suffix |-> suffix]
  ELSE IF Len(prefix) <= maxPrefix /\ Len(suffix) > maxSuffix
  THEN [prefix |-> prefix,
        suffix |-> JsSlice(suffix, 0, limit - Len(prefix))]
  ELSE [prefix |-> prefix, suffix |-> suffix]

AsmInit ==
  /\ asmPc = "encoded"
  /\ \E u \in MaxTokenUsageValues, cw \in ContextWindows :
       promptTokenLimit = PromptTokenLimit(u, cw)
  /\ weightQuarters \in WeightQuarterValues
  \* the header alone fits the budget (a budget no truncation could meet is left out)
  /\ \E h \in HeaderLengths : h <= promptTokenLimit /\ headerTokens = HeaderTokenSeq(h)
  /\ \E p \in PrefixLengths : encPrefixTokens = PrefixTokenSeq(p)
  /\ \E s \in SuffixLengths : encSuffixTokens = SuffixTokenSeq(s)
  /\ prefixTokens = encPrefixTokens
  /\ suffixTokens = encSuffixTokens
  /\ maxPrefixLength = 0
  /\ maxSuffixLength = 0

AsmIdle ==
  /\ asmPc = "idle"
  /\ promptTokenLimit = 0
  /\ weightQuarters = 0
  /\ headerTokens = <<>>
  /\ encPrefixTokens = <<>>
  /\ encSuffixTokens = <<>>
  /\ prefixTokens = <<>>
  /\ suffixTokens = <<>>
  /\ maxPrefixLength = 0
  /\ maxSuffixLength = 0

\* "Truncate prefix or suffix if it exceeds the context window"
Truncate ==
  /\ asmPc = "encoded"
  /\ LET maxP == MaxPrefixLength(promptTokenLimit, weightQuarters, Len(headerTokens))
         maxS == MaxSuffixLength(promptTokenLimit, maxP, Len(headerTokens))
         t    == TruncateTokens(prefixTokens, suffixTokens, promptTokenLimit, maxP, maxS)
     IN  /\ maxPrefixLength' = maxP
         /\ maxSuffixLength' = maxS
         /\ prefixTokens' = t.prefix
         /\ suffixTokens' = t.suffix
  /\ asmPc' = "truncated"
  /\ UNCHANGED <<promptTokenLimit, weightQuarters, headerTokens, encPrefixTokens,
                 encSuffixTokens>>
  /\ UNCHANGED asmOthers

\* "Add header tokens before prefix"
AddHeader ==
  /\ asmPc = "truncated"
  /\ prefixTokens' = headerTokens \o prefixTokens
  /\ asmPc' = "assembled"
  /\ UNCHANGED <<promptTokenLimit, weightQuarters, headerTokens, encPrefixTokens,
                 encSuffixTokens, suffixTokens, maxPrefixLength, maxSuffixLength>>
  /\ UNCHANGED asmOthers

AsmNext == Truncate \/ AddHeader

(***************************************************************************)
(* TEXT: strings are sequences of characters over a small alphabet.        *)
(***************************************************************************)
\* longest document text enumerated
MaxDocLen == 2
\* longest model response enumerated
MaxResponseLen == 1

\* one alphanumeric character, a blank and a line break
Chars == {"a", " ", "\n"}

\* what String.prototype.trim removes
IsSpace(c) == c \in {" ", "\n"}

\* /[a-zA-Z0-9]/
IsAlnum(c) == c = "a"

Strings(n) == UNION {[1..k -> Chars] : k \in 0..n}

SetMin(S) == CHOOSE x \in S : \A y \in S : x <= y

SetMax(S) == CHOOSE x \in S : \A y \in S : x >= y

NonSpaceIdx(s) == {i \in 1..Len(s) : ~IsSpace(s[i])}

Trim(s) ==
  IF NonSpaceIdx(s) = {} THEN <<>>
  ELSE SubSeq(s, SetMin(NonSpaceIdx(s)), SetMax(NonSpaceIdx(s)))

TrimEnd(s) ==
  IF NonSpaceIdx(s) = {} THEN <<>> ELSE SubSeq(s, 1, SetMax(NonSpaceIdx(s)))

TrimStart(s) ==
  IF NonSpaceIdx(s) = {} THEN <<>> ELSE SubSeq(s, SetMin(NonSpaceIdx(s)), Len(s))

StartsWith(s, p) == Len(p) <= Len(s) /\ SubSeq(s, 1, Len(p)) = p

HasAlnum(s) == \E i \in 1..Len(s) : IsAlnum(s[i])

\* String.prototype.indexOf for one character: 0-based, -1 when absent
IndexOf(s, c) ==
  IF \E i \in 1..Len(s) : s[i] = c
  THEN SetMin({i \in 1..Len(s) : s[i] = c}) - 1
  ELSE 0 - 1

\* offsets are 0-based counts of characters before the position
\* offset of Position(line of off, 0)
LineStart(text, off) ==
  SetMax({i \in 0..off : i = 0 \/ text[i] = "\n"})

\* offset of document.lineAt(position).range.end
LineEnd(text, off) ==
  SetMin({i \in off..Len(text) : i = Len(text) \/ text[i + 1] = "\n"})

\* document.getText(new Range(from, to)) for two offsets
GetText(text, from, to) == SubSeq(text, from + 1, to)

\* "Remove empty lines at the end of the string": split on "\n", pop the last
\* line while it is blank, join
StripTrailingBlankLines(s) ==
  IF NonSpaceIdx(s) = {} THEN <<>>
  ELSE SubSeq(s, 1, LineEnd(s, SetMax(NonSpaceIdx(s))))

(***************************************************************************)
(* COMPLETION CACHE                                                        *)
(***************************************************************************)
Responses == Strings(MaxResponseLen) \ {<<>>}

\* the insertion range's growth over the text after the cursor on its line:
\* the number of characters the loop translates insertRange.end by
RECURSIVE ExtendRange(_, _)
ExtendRange(lineSuffix, partResponse) ==
  IF lineSuffix = <<>> THEN 0
  ELSE LET char == Head(lineSuffix)
           charIndex == IndexOf(partResponse, char)
       IN  IF IsSpace(char)
           THEN 1 + ExtendRange(Tail(lineSuffix), partResponse)
           ELSE IF charIndex >= 0
           THEN 1 + ExtendRange(Tail(lineSuffix), JsSliceFrom(partResponse, charIndex))
           ELSE 0

\* the part of generateCompletions after provider.invoke returned `response`:
\* the insertion range, the inserted text and the cache entry it stores
CompletionFor(text, pos, response) ==
  LET lineStart      == LineStart(text, pos)
      linePrefix     == GetText(text, lineStart, pos)
      lineSuffixText == GetText(text, pos, LineEnd(text, pos))
      withPrefix     == IF Trim(linePrefix) # <<>> THEN linePrefix \o response
                        ELSE response
      trimmed        == IF lineSuffixText # <<>> /\ Trim(lineSuffixText) = <<>>
                        THEN TrimEnd(withPrefix) ELSE withPrefix
      ext            == IF lineSuffixText # <<>> /\ Trim(lineSuffixText) = <<>> THEN 0
                        ELSE IF ~HasAlnum(Trim(lineSuffixText))
                        THEN ExtendRange(lineSuffixText, response)
                        ELSE 0
      insertText     == StripTrailingBlankLines(trimmed)
  IN  [rangeStart  |-> lineStart,
       rangeEnd    |-> pos + ext,
       insertText  |-> insertText,
       cachePrefix |-> GetText(text, 0, lineStart) \o insertText,
       cacheSuffix |-> GetText(text, pos + ext, Len(text))]

\* the results of checkCompletionCache: undefined, and "not called yet"
CacheMiss == [kind |-> "miss", insertText |-> <<>>, rangeStart |-> 0, rangeEnd |-> 0]

Unchecked == [kind |-> "unchecked", insertText |-> <<>>, rangeStart |-> 0, rangeEnd |-> 0]

\* checkCompletionCache without the comparison of the suffixes
CheckCompletionCacheAnySuffix(text, pos, cPrefix, cSuffix) ==
  LET prefix == GetText(text, 0, pos)
  IN  IF /\ Len(Trim(cPrefix)) # 0
         /\ StartsWith(cPrefix, prefix)
         /\ Len(Trim(cSuffix)) # 0
      THEN [kind |-> "hit", insertText |-> JsSliceFrom(cPrefix, Len(prefix)),
            rangeStart |-> pos, rangeEnd |-> pos]
      ELSE CacheMiss

CheckCompletionCache(text, pos, cPrefix, cSuffix) ==
  LET prefix == GetText(text, 0, pos)
      suffix == GetText(text, pos, Len(text))
  IN  IF /\ Len(Trim(cPrefix)) # 0
         /\ StartsWith(cPrefix, prefix)
         /\ Len(Trim(cSuffix)) # 0
         /\ cSuffix = suffix
      THEN [kind |-> "hit", insertText |-> JsSliceFrom(cPrefix, Len(prefix)),
            rangeStart |-> pos, rangeEnd |-> pos]
      ELSE CacheMiss

CacheInit ==
  /\ docText \in Strings(MaxDocLen)
  /\ cursor \in 0..Len(docText)
  /\ cachePrefix = <<>>
  /\ cacheSuffix = <<>>
  /\ cacheResult = Unchecked

CacheIdle ==
  /\ docText = <<>>
  /\ cursor = 0
  /\ cachePrefix = <<>>
  /\ cacheSuffix = <<>>
  /\ cacheResult = Unchecked

\* a generation for the document and cursor emits a completion for a non-empty
\* response of the model and stores the cache entry
EmitCompletion ==
  /\ \E response \in Responses :
       LET c == CompletionFor(docText, cursor, response)
       IN  /\ cachePrefix' = c.cachePrefix
           /\ cacheSuffix' = c.cacheSuffix
  /\ cacheResult' = Unchecked
  /\ UNCHANGED <<docText, cursor>>
  /\ UNCHANGED cacheOthers

\* what one edit of the user makes of the document and the cursor: a character
\* typed at the cursor, the character before the cursor deleted, the cursor moved
Edits(text, pos) ==
  {<<SubSeq(text, 1, pos) \o <<c>> \o SubSeq(text, pos + 1, Len(text)), pos + 1>> :
     c \in IF Len(text) < MaxDocLen THEN Chars ELSE {}}
  \cup {<<SubSeq(text, 1, pos - 1) \o SubSeq(text, pos + 1, Len(text)), pos - 1>> :
          k \in IF pos > 0 THEN {1} ELSE {}}
  \cup {<<text, q>> : q \in (0..Len(text)) \ {pos}}

\* the user edits the document or moves the cursor
EditDocument ==
  /\ \E e \in Edits(docText, cursor) :
       /\ docText' = e[1]
       /\ cursor' = e[2]
  /\ cacheResult' = Unchecked
  /\ UNCHANGED <<cachePrefix, cacheSuffix>>
  /\ UNCHANGED cacheOthers

\* provideInlineCompletionItems consults the cache for the document and position
CheckCache ==
  /\ cacheResult = Unchecked
  /\ cacheResult' = CheckCompletionCache(docText, cursor, cachePrefix, cacheSuffix)
  /\ UNCHANGED <<docText, cursor, cachePrefix, cacheSuffix>>
  /\ UNCHANGED cacheOthers

CacheNext == EmitCompletion \/ EditDocument \/ CheckCache

(***************************************************************************)
(* DEBOUNCED REQUESTS (InlineCompletionProvider.provideInlineCompletionItems)*)
(***************************************************************************)
\* calls of provideInlineCompletionItems enumerated
MaxRequests == 3

\* statusIcon.reset(): the icon of the current state
ResetText(state) == IF state = "disabled" THEN "disabled" ELSE "default"

\* a call: where its callback stands (pc), whether its token was cancelled and its
\* signal aborted, how its promise was answered, whether it called provider.invoke
\* (and with which signal) and whether it logged and notified an error
Request(pc, result) ==
  [pc |-> pc, aborted |-> FALSE, result |-> result, invoked |-> "no", errored |-> FALSE]

\* the timer of a call, once its token is cancelled, with a handler that forgets
\* clearTimeout
CancelledPcKeepTimer(pc) == pc

\* token.onCancellationRequested: clearTimeout(timeoutId) disarms a pending timer;
\* a callback already running goes on
CancelledPc(pc) == IF pc = "debounce" THEN "cleared" ELSE pc

RequestIds == 1..Len(requests)

ReqInit ==
  /\ requests = <<>>
  /\ providerPresent \in BOOLEAN
  /\ langDisabled = FALSE
  /\ statusState = IF providerPresent THEN "enabled" ELSE "disabled"
  /\ statusText = ResetText(statusState)
  /\ cacheFilled = FALSE
  /\ allInWindow = TRUE
  /\ hostCancelled = TRUE

ReqIdle ==
  /\ requests = <<>>
  /\ providerPresent = FALSE
  /\ langDisabled = FALSE
  /\ statusState = "disabled"
  /\ statusText = "disabled"
  /\ cacheFilled = FALSE
  /\ allInWindow = TRUE
  /\ hostCancelled = TRUE

\* the host calls provideInlineCompletionItems: answered at once when the icon is
\* disabled or the cache hits, otherwise a timer is armed and a cancellation
\* listener registered
NewRequest ==
  /\ Len(requests) < MaxRequests
  /\ \E hit \in {FALSE, cacheFilled} :
       LET answer == IF statusState = "disabled" THEN "empty"
                     ELSE IF hit THEN "cached" ELSE "none"
           n      == Len(requests)
       IN  /\ requests' = Append(requests,
                 IF answer = "none" THEN Request("debounce", "none")
                 ELSE Request("resolved", answer))
           /\ statusText' = IF answer = "none" THEN ResetText(statusState) ELSE statusText
           /\ allInWindow' = (/\ allInWindow
                              /\ answer = "none"
                              /\ n > 0 => requests[n].pc \in {"debounce", "cleared"})
           /\ hostCancelled' = (/\ hostCancelled
                                /\ \A r \in 1..n :
                                     requests[r].aborted \/ requests[r].pc = "resolved")
  /\ UNCHANGED <<statusState, providerPresent, langDisabled, cacheFilled>>
  /\ UNCHANGED reqOthers

\* generateCompletions with a language check that goes on without a provider
NothingToGenerateByLanguage(disabled, present) == disabled

\* generateCompletions without the check of the disabled languages
NothingToGenerateByProvider(disabled, present) == ~present

\* generateCompletions returns the empty list before any await when the document's
\* language is disabled or getProvider("Inline Completion") gives no provider
NothingToGenerate(disabled, present) == disabled \/ ~present

\* the timer of call r fires: setLoading, then generateCompletions up to its first
\* await; a disabled language or a missing provider answers with the empty list
TimerFires(r) ==
  /\ requests[r].pc = "debounce"
  /\ IF NothingToGenerate(langDisabled, providerPresent)
     THEN /\ requests' = [requests EXCEPT ![r].pc = "resolved", ![r].result = "empty"]
          /\ statusText' = ResetText(statusState)
     ELSE /\ requests' = [requests EXCEPT ![r].pc = "encoding"]
          /\ statusText' = "loading"
  /\ UNCHANGED <<statusState, providerPresent, langDisabled, cacheFilled, allInWindow,
                 hostCancelled>>
  /\ UNCHANGED reqOthers

\* the prompt of call r is encoded and provider.invoke is called with the signal
EncodeDone(r) ==
  /\ requests[r].pc = "encoding"
  /\ requests' = [requests EXCEPT
                    ![r].pc = "invoking",
                    ![r].invoked = IF requests[r].aborted THEN "aborted" ELSE "live"]
  /\ UNCHANGED <<statusState, statusText, providerPresent, langDisabled, cacheFilled,
                 allInWindow, hostCancelled>>
  /\ UNCHANGED reqOthers

\* a catch that logs and notifies whatever the signal says
LogsErrorAlways(aborted) == TRUE

\* the catch of the timer callback: logger.error and logger.notifyError run only
\* if (!abortController.signal.aborted)
LogsError(aborted) == ~aborted

\* an await of generateCompletions rejects (the tokenizer, the provider): the catch
\* logs and notifies unless the signal is aborted, answers with the empty list, and
\* the finally resets the icon
GenerationFails(r) ==
  /\ requests[r].pc \in {"encoding", "invoking"}
  /\ requests' = [requests EXCEPT ![r].pc = "resolved", ![r].result = "empty",
                                  ![r].errored = LogsError(requests[r].aborted)]
  /\ statusText' = ResetText(statusState)
  /\ UNCHANGED <<statusState, providerPresent, langDisabled, cacheFilled, allInWindow,
                 hostCancelled>>
  /\ UNCHANGED reqOthers

\* provider.invoke of call r returns: an empty response answers with the empty list,
\* any other one with the completion, which is stored in the cache
InvokeReturns(r) ==
  /\ requests[r].pc = "invoking"
  /\ \E empty \in BOOLEAN :
       /\ requests' = [requests EXCEPT ![r].pc = "resolved",
                         ![r].result = IF empty THEN "empty" ELSE "list"]
       /\ cacheFilled' = (cacheFilled \/ ~empty)
  /\ statusText' = ResetText(statusState)
  /\ UNCHANGED <<statusState, providerPresent, langDisabled, allInWindow, hostCancelled>>
  /\ UNCHANGED reqOthers

\* the host cancels the token of call r, which is not answered yet
CancelToken(r) ==
  /\ requests[r].pc \in {"debounce", "encoding", "invoking"}
  /\ ~requests[r].aborted
  /\ requests' = [requests EXCEPT ![r].pc = CancelledPc(requests[r].pc),
                                  ![r].aborted = TRUE]
  /\ statusText' = ResetText(statusState)
  /\ UNCHANGED <<statusState, providerPresent, langDisabled, cacheFilled, allInWindow,
                 hostCancelled>>
  /\ UNCHANGED reqOthers

\* the registry binds or unbinds the "Inline Completion" provider
ProviderChanges ==
  /\ providerPresent' = ~providerPresent
  /\ UNCHANGED <<requests, statusState, statusText, langDisabled, cacheFilled, allInWindow,
                 hostCancelled>>
  /\ UNCHANGED reqOthers

\* the status menu enables or disables completions for the document's language
LanguageToggles ==
  /\ langDisabled' = ~langDisabled
  /\ UNCHANGED <<requests, statusState, statusText, providerPresent, cacheFilled,
                 allInWindow, hostCancelled>>
  /\ UNCHANGED reqOthers

\* statusIcon.updateStatusBarIcon, on inlineCompletionProviderUpdated
UpdateStatusBarIcon ==
  /\ statusState' = IF providerPresent /\ ~langDisabled THEN "enabled" ELSE "disabled"
  /\ statusText' = ResetText(statusState')
  /\ UNCHANGED <<requests, providerPresent, langDisabled, cacheFilled, allInWindow,
                 hostCancelled>>
  /\ UNCHANGED reqOthers

TimerFiresSome == \E r \in RequestIds : TimerFires(r)

EncodeDoneSome == \E r \in RequestIds : EncodeDone(r)

GenerationFailsSome == \E r \in RequestIds : GenerationFails(r)

InvokeReturnsSome == \E r \in RequestIds : InvokeReturns(r)

CancelTokenSome == \E r \in RequestIds : CancelToken(r)

ReqNext ==
  \/ NewRequest
  \/ TimerFiresSome
  \/ EncodeDoneSome
  \/ GenerationFailsSome
  \/ InvokeReturnsSome
  \/ CancelTokenSome
  \/ ProviderChanges
  \/ LanguageToggles
  \/ UpdateStatusBarIcon

(***************************************************************************)
(* CONFIGURATION STORE, CONFIGURE-MODEL COMMAND, SESSION MANAGER, REGISTRY *)
(***************************************************************************)
\* modelProvidersUpdated events the command may leave to be handled
MaxSignals == 3
\* the nicknames the user gives to configurations
Nicknames == {"n1", "n2"}

\* LOCATIONS, in their order: two of the chat locations and the completion one
Locations == <<"Inline Chat", "Panel Chat", "Inline Completion">>

LocationNames == {Locations[i] : i \in 1..Len(Locations)}

LocationType(loc) == IF loc = "Inline Completion" THEN "completion" ELSE "chat"

\* ModelProviders: the provider ids of a chat class and of a completion class
RegisteredIds == {"openai-chat", "openai-completion"}

ProviderType(pid) == IF pid = "openai-completion" THEN "completion" ELSE "chat"

NoConfig == "none"

\* the API keys a user types into getApiKeyInput
ApiKeys == {"k1", "k2"}

NoPref == [nickname |-> "none", providerId |-> "none"]

NoAdapter == [nickname |-> "none", providerId |-> "none"]

NoPrefs == [loc \in LocationNames |-> NoPref]

IdleOp ==
  [kind |-> "idle", pc |-> "idle", nick |-> "none", pid |-> "none", loc |-> "none",
   choices |-> {}, idx |-> 0]

\* the globalState keys that hold a value
StoredKeys ==
  {<<"model", n>> : n \in {m \in Nicknames : configs[m] # NoConfig}}
  \cup {<<"usage", l>> : l \in {k \in LocationNames : prefs[k] # NoPref}}

StoreInit ==
  /\ configs = [n \in Nicknames |-> NoConfig]
  /\ prefs = NoPrefs
  /\ signals = 0
  /\ op = IdleOp
  /\ clearing = {}
  /\ apiKeys = [n \in Nicknames |-> NoConfig]
  /\ caught = "none"

OpFree == op.pc \in {"idle", "done"}

ProviderIdOfType(type) == IF type = "completion" THEN "openai-completion" ELSE "openai-chat"

\* the locations addNewConfiguration offers for a provider class
LocationsOfType(type) == {loc \in LocationNames : LocationType(loc) = type}

\* the nicknames modifyPreferences lists for a location
ChoicesFor(loc) ==
  {n \in Nicknames :
     configs[n] # NoConfig /\ ProviderType(configs[n]) = LocationType(loc)}

\* a deletion that leaves the preferences alone
CascadeTargetsNone(prfs, nick, idx) == {}

\* the positions in LOCATIONS, from idx on, whose preference names the nickname
CascadeTargets(prfs, nick, idx) ==
  {i \in idx..Len(Locations) : prfs[Locations[i]].nickname = nick}

\* a clearGlobalState whose first update drops every configuration
ConfigsWithoutAll(key) == [n \in Nicknames |-> NoConfig]

\* globalState.update(key, undefined) applied to the configurations
ConfigsWithout(key) ==
  IF key[1] = "model" THEN [configs EXCEPT ![key[2]] = NoConfig] ELSE configs

\* globalState.update(key, undefined) applied to the apiKey fields
ApiKeysWithout(key) ==
  IF key[1] = "model" THEN [apiKeys EXCEPT ![key[2]] = NoConfig] ELSE apiKeys

\* globalState.update(key, undefined) applied to the preferences
PrefsWithout(key) ==
  IF key[1] = "usage" THEN [prefs EXCEPT ![key[2]] = NoPref] ELSE prefs

\* addNewConfiguration: a provider class is picked and a nickname typed that
\* validateInput accepts
AddStart(n, pid) ==
  /\ OpFree
  /\ configs[n] = NoConfig
  /\ op' = [IdleOp EXCEPT !.kind = "add", !.pc = "configuring", !.nick = n, !.pid = pid]
  /\ UNCHANGED <<configs, prefs, signals, clearing>>
  /\ caught' = "none"
  /\ UNCHANGED apiKeys
  /\ UNCHANGED storeOthers

\* ProviderClass.configure(nickname) stores the ModelConfig
AddConfigured ==
  /\ op.kind = "add" /\ op.pc = "configuring"
  /\ configs' = [configs EXCEPT ![op.nick] = op.pid]
  /\ op' = [op EXCEPT !.pc = "picking"]
  /\ UNCHANGED <<prefs, signals, clearing>>
  /\ \E key \in ApiKeys : apiKeys' = [apiKeys EXCEPT ![op.nick] = key]
  /\ UNCHANGED caught
  /\ UNCHANGED storeOthers

\* a configure run that stores the ModelConfig although its test call failed
StoredOnFailureKept(cfgs, nick, pid) == [cfgs EXCEPT ![nick] = pid]

\* the store after a configure run that threw: storage.models.set comes after the
\* last throw of configure, so nothing was written
StoredOnFailure(cfgs, nick, pid) == cfgs

\* configure throws because its connectivity test call failed: the catch logs the
\* error, notifies "Error in configuring the model provider" and returns
ConfigureTestFails ==
  /\ op.kind \in {"add", "edit"} /\ op.pc = "configuring"
  /\ op' = IdleOp
  /\ caught' = "test"
  /\ configs' = StoredOnFailure(configs, op.nick, op.pid)
  /\ UNCHANGED <<prefs, signals, clearing, apiKeys>>
  /\ UNCHANGED storeOthers

\* an input of configure is dismissed (API key, base URL, model selection): the
\* input function throws "User cancelled ...", and the same catch runs
ConfigureInputCancelled ==
  /\ op.kind \in {"add", "edit"} /\ op.pc = "configuring"
  /\ op' = IdleOp
  /\ caught' = "cancelled"
  /\ configs' = StoredOnFailure(configs, op.nick, op.pid)
  /\ UNCHANGED <<prefs, signals, clearing, apiKeys>>
  /\ UNCHANGED storeOthers

\* the locations are picked: their preferences are written and the event is fired
AddPick(locs) ==
  /\ op.kind = "add" /\ op.pc = "picking"
  /\ signals < MaxSignals
  /\ prefs' = [loc \in LocationNames |->
                 IF loc \in locs THEN [nickname |-> op.nick, providerId |-> op.pid]
                 ELSE prefs[loc]]
  /\ signals' = signals + 1
  /\ op' = IdleOp
  /\ UNCHANGED <<configs, clearing>>
  /\ UNCHANGED <<apiKeys, caught>>
  /\ UNCHANGED storeOthers

\* the location picker is dismissed: "Skipped preference selection", no event
AddSkip ==
  /\ op.kind = "add" /\ op.pc = "picking"
  /\ op' = IdleOp
  /\ UNCHANGED <<configs, prefs, signals, clearing>>
  /\ UNCHANGED <<apiKeys, caught>>
  /\ UNCHANGED storeOthers

\* editModelConfiguration of a listed nickname whose ModelConfig is stored
EditStart(n) ==
  /\ OpFree
  /\ configs[n] # NoConfig
  /\ op' = [IdleOp EXCEPT !.kind = "edit", !.pc = "configuring", !.nick = n,
                          !.pid = configs[n]]
  /\ UNCHANGED <<configs, prefs, signals, clearing>>
  /\ caught' = "none"
  /\ UNCHANGED apiKeys
  /\ UNCHANGED storeOthers

\* configure stores the edited ModelConfig and the event is fired
EditConfigured ==
  /\ op.kind = "edit" /\ op.pc = "configuring"
  /\ signals < MaxSignals
  /\ configs' = [configs EXCEPT ![op.nick] = op.pid]
  /\ signals' = signals + 1
  /\ op' = IdleOp
  /\ UNCHANGED <<prefs, clearing>>
  /\ \E key \in ApiKeys : apiKeys' = [apiKeys EXCEPT ![op.nick] = key]
  /\ UNCHANGED caught
  /\ UNCHANGED storeOthers

\* modifyPreferences: a location is picked and the models for it are listed
ModifyStart(loc) ==
  /\ OpFree
  /\ op' = [IdleOp EXCEPT !.kind = "modify", !.pc = "picking", !.loc = loc,
                          !.choices = ChoicesFor(loc)]
  /\ UNCHANGED <<configs, prefs, signals, clearing>>
  /\ caught' = "none"
  /\ UNCHANGED apiKeys
  /\ UNCHANGED storeOthers

\* a listed model or "Disable" is picked: the preference is written, the event fired
ModifyPick(choice) ==
  /\ op.kind = "modify" /\ op.pc = "picking"
  /\ choice \in op.choices \cup {"disable"}
  /\ signals < MaxSignals
  /\ prefs' = [prefs EXCEPT ![op.loc] =
                 IF choice = "disable" THEN NoPref
                 ELSE [nickname |-> choice,
                       providerId |-> ProviderIdOfType(LocationType(op.loc))]]
  /\ signals' = signals + 1
  /\ op' = IdleOp
  /\ UNCHANGED <<configs, clearing>>
  /\ UNCHANGED <<apiKeys, caught>>
  /\ UNCHANGED storeOthers

\* the model picker is dismissed
ModifyCancel ==
  /\ op.kind = "modify" /\ op.pc = "picking"
  /\ op' = IdleOp
  /\ UNCHANGED <<configs, prefs, signals, clearing>>
  /\ UNCHANGED <<apiKeys, caught>>
  /\ UNCHANGED storeOthers

\* deleteConfirmationDialog: the nickname is confirmed and the ModelConfig removed;
\* the handler then awaits the write
DeleteStart(n) ==
  /\ OpFree
  /\ configs[n] # NoConfig
  /\ configs' = [configs EXCEPT ![n] = NoConfig]
  /\ op' = [IdleOp EXCEPT !.kind = "delete", !.pc = "cascading", !.nick = n, !.idx = 1]
  /\ UNCHANGED <<prefs, signals, clearing>>
  /\ apiKeys' = [apiKeys EXCEPT ![n] = NoConfig]
  /\ caught' = "none"
  /\ UNCHANGED storeOthers

\* the loop over LOCATIONS goes on to the next preference that names the nickname,
\* removes it and awaits the write; with none left the event is fired
DeleteResume ==
  /\ op.kind = "delete" /\ op.pc = "cascading"
  /\ LET targets == CascadeTargets(prefs, op.nick, op.idx)
     IN  IF targets # {}
         THEN /\ prefs' = [prefs EXCEPT ![Locations[SetMin(targets)]] = NoPref]
              /\ op' = [op EXCEPT !.idx = SetMin(targets) + 1]
              /\ UNCHANGED signals
         ELSE /\ signals < MaxSignals
              /\ signals' = signals + 1
              /\ op' = [op EXCEPT !.pc = "done"]
              /\ UNCHANGED prefs
  /\ UNCHANGED <<configs, clearing>>
  /\ UNCHANGED <<apiKeys, caught>>
  /\ UNCHANGED storeOthers

\* the session ends: handleNoSession calls clearGlobalState, which takes the keys and
\* removes the first one before its first await; no event is fired
SignOut ==
  /\ clearing = {}
  /\ \E key \in StoredKeys :
       /\ configs' = ConfigsWithout(key)
       /\ prefs' = PrefsWithout(key)
       /\ apiKeys' = ApiKeysWithout(key)
       /\ clearing' = StoredKeys \ {key}
  /\ UNCHANGED <<signals, op>>
  /\ UNCHANGED caught
  /\ UNCHANGED storeOthers

\* clearGlobalState removes the next key and awaits the write
ClearStep ==
  /\ \E key \in clearing :
       /\ configs' = ConfigsWithout(key)
       /\ prefs' = PrefsWithout(key)
       /\ apiKeys' = ApiKeysWithout(key)
       /\ clearing' = clearing \ {key}
  /\ UNCHANGED <<signals, op>>
  /\ UNCHANGED caught
  /\ UNCHANGED storeOthers

AddStartSome == \E n \in Nicknames, pid \in RegisteredIds : AddStart(n, pid)

AddPickSome == \E locs \in SUBSET LocationsOfType(ProviderType(op.pid)) : AddPick(locs)

EditStartSome == \E n \in Nicknames : EditStart(n)

ModifyStartSome == \E loc \in LocationNames : ModifyStart(loc)

ModifyPickSome == \E choice \in Nicknames \cup {"disable"} : ModifyPick(choice)

DeleteStartSome == \E n \in Nicknames : DeleteStart(n)

StoreNext ==
  \/ AddStartSome
  \/ AddConfigured
  \/ ConfigureTestFails
  \/ ConfigureInputCancelled
  \/ AddPickSome
  \/ AddSkip
  \/ EditStartSome
  \/ EditConfigured
  \/ ModifyStartSome
  \/ ModifyPickSome
  \/ ModifyCancel
  \/ DeleteStartSome
  \/ DeleteResume
  \/ SignOut
  \/ ClearStep

(***************************************************************************)
(* PROVIDER REGISTRY (ModelProviderManager). The command and the session   *)
(* manager appear here as the single writes they make to the store and the *)
(* events they fire.                                                       *)
(***************************************************************************)
\* initialize() calls that may be in flight at one time
MaxInits == 2
\* modelProvidersUpdated events that may wait for the registry at one time
MaxPending == 1

NoPass == [result |-> "none", alone |-> TRUE, clean |-> TRUE, initOk |-> FALSE]

\* what one slot's callback of updateProviders constructs: nothing without a
\* preference or a class of its provider id, nothing when the constructor throws
\* "Model configuration not found"
Resolve(pref, cfgs) ==
  IF pref = NoPref \/ pref.providerId \notin RegisteredIds THEN NoAdapter
  ELSE IF cfgs[pref.nickname] = NoConfig THEN NoAdapter
  ELSE [nickname |-> pref.nickname, providerId |-> pref.providerId]

\* the slots whose callback throws in the constructor
Throwing(prfs, cfgs) ==
  {loc \in LocationNames :
     /\ prfs[loc] # NoPref
     /\ prfs[loc].providerId \in RegisteredIds
     /\ cfgs[prfs[loc].nickname] = NoConfig}

\* updateProviders without the try/catch in its callbacks: Promise.all rejects
PassResultUncaught(failed) == IF failed = {} THEN "completed" ELSE "rejected"

\* how updateProviders settles given the slots that failed: each callback catches
\* and logs its own error
PassResult(failed) == "completed"

\* a pass that leaves the entries of the map in place
EntryAtStartKept(entry) == entry

\* this.modelProviders.delete(location.name) at the start of a slot's callback
EntryAtStart(entry) == NoAdapter

\* a write of the store during or after the pass that started last
Touch(pass) == [pass EXCEPT !.clean = FALSE]

RegInit ==
  /\ modelProviders = [loc \in LocationNames |-> NoAdapter]
  /\ inits = <<>>
  /\ lastPass = NoPass

\* configure stores a ModelConfig: a new nickname, or an edited configuration
StoreConfig(n, pid) ==
  /\ configs[n] \in {NoConfig, pid}
  /\ configs' = [configs EXCEPT ![n] = pid]
  /\ lastPass' = Touch(lastPass)
  /\ UNCHANGED <<prefs, signals, op, clearing, modelProviders, inits>>
  /\ apiKeys' = [apiKeys EXCEPT ![n] = "k1"]
  /\ UNCHANGED caught
  /\ UNCHANGED regOthers

\* deleteConfirmationDialog or clearGlobalState removes a ModelConfig
RemoveConfig(n) ==
  /\ configs[n] # NoConfig
  /\ configs' = [configs EXCEPT ![n] = NoConfig]
  /\ lastPass' = Touch(lastPass)
  /\ UNCHANGED <<prefs, signals, op, clearing, modelProviders, inits>>
  /\ apiKeys' = [apiKeys EXCEPT ![n] = NoConfig]
  /\ UNCHANGED caught
  /\ UNCHANGED regOthers

\* addNewConfiguration or modifyPreferences writes the preference of a location
\* for a nickname it listed
StorePreference(loc, n) ==
  /\ n \in ChoicesFor(loc)
  /\ prefs' = [prefs EXCEPT ![loc] =
                 [nickname |-> n, providerId |-> ProviderIdOfType(LocationType(loc))]]
  /\ lastPass' = Touch(lastPass)
  /\ UNCHANGED <<configs, signals, op, clearing, modelProviders, inits>>
  /\ UNCHANGED <<apiKeys, caught>>
  /\ UNCHANGED regOthers

\* modifyPreferences ("Disable"), deleteConfirmationDialog or clearGlobalState
\* removes the preference of a location
RemovePreference(loc) ==
  /\ prefs[loc] # NoPref
  /\ prefs' = [prefs EXCEPT ![loc] = NoPref]
  /\ lastPass' = Touch(lastPass)
  /\ UNCHANGED <<configs, signals, op, clearing, modelProviders, inits>>
  /\ UNCHANGED <<apiKeys, caught>>
  /\ UNCHANGED regOthers

\* events.fire of modelProvidersUpdated, at the end of an operation of the command
FireEvent ==
  /\ signals < MaxPending
  /\ signals' = signals + 1
  /\ UNCHANGED <<configs, prefs, op, clearing, modelProviders, inits, lastPass>>
  /\ UNCHANGED <<apiKeys, caught>>
  /\ UNCHANGED regOthers

\* updateProviders up to its awaits: every slot's entry is deleted; a chat slot is
\* bound again within the same turn (its initialize() is Promise.resolve()), the
\* "Inline Completion" adapter starts its initialize(), which reads the tokenizer
StartPass ==
  /\ Resolve(prefs["Inline Completion"], configs) # NoAdapter => Len(inits) < MaxInits
  /\ LET adapter == Resolve(prefs["Inline Completion"], configs)
         earlier == [i \in 1..Len(inits) |-> [inits[i] EXCEPT !.latest = FALSE]]
     IN  /\ modelProviders' =
               [loc \in LocationNames |->
                  IF Resolve(prefs[loc], configs) # NoAdapter /\ LocationType(loc) = "chat"
                  THEN Resolve(prefs[loc], configs)
                  ELSE EntryAtStart(modelProviders[loc])]
         /\ inits' = IF adapter # NoAdapter
                     THEN Append(earlier, [adapter |-> adapter, latest |-> TRUE])
                     ELSE earlier
         /\ lastPass' = [result |-> IF adapter # NoAdapter THEN "running"
                                    ELSE PassResult(Throwing(prefs, configs)),
                         alone  |-> inits = <<>>,
                         clean  |-> TRUE,
                         initOk |-> FALSE]

\* the ModelProviderManager handles a modelProvidersUpdated event
HandleSignal ==
  /\ signals > 0
  /\ signals' = signals - 1
  /\ StartPass
  /\ UNCHANGED <<configs, prefs, op, clearing>>
  /\ UNCHANGED <<apiKeys, caught>>
  /\ UNCHANGED regOthers

\* a session is found: handleActiveSession awaits updateProviders()
SignIn ==
  /\ StartPass
  /\ UNCHANGED <<configs, prefs, signals, op, clearing>>
  /\ UNCHANGED <<apiKeys, caught>>
  /\ UNCHANGED regOthers

\* an initialize() in flight settles: on success its adapter is put in the map, on
\* failure the error is caught and logged
InitSettles(i, ok) ==
  /\ i \in 1..Len(inits)
  /\ inits' = SubSeq(inits, 1, i - 1) \o SubSeq(inits, i + 1, Len(inits))
  /\ modelProviders' = IF ok THEN [modelProviders EXCEPT !["Inline Completion"] =
                                     inits[i].adapter]
                       ELSE modelProviders
  /\ lastPass' = IF inits[i].latest
                 THEN [lastPass EXCEPT
                         !.result = PassResult(Throwing(prefs, configs) \cup
                                               IF ok THEN {} ELSE {"Inline Completion"}),
                         !.initOk = ok]
                 ELSE lastPass
  /\ UNCHANGED <<configs, prefs, signals, op, clearing>>
  /\ UNCHANGED <<apiKeys, caught>>
  /\ UNCHANGED regOthers

StoreConfigSome == \E n \in Nicknames, pid \in RegisteredIds : StoreConfig(n, pid)

RemoveConfigSome == \E n \in Nicknames : RemoveConfig(n)

StorePreferenceSome == \E loc \in LocationNames, n \in Nicknames : StorePreference(loc, n)

RemovePreferenceSome == \E loc \in LocationNames : RemovePreference(loc)

InitSucceeds == \E i \in 1..Len(inits) : InitSettles(i, TRUE)

InitFails == \E i \in 1..Len(inits) : InitSettles(i, FALSE)

RegNext ==
  \/ StoreConfigSome
  \/ RemoveConfigSome
  \/ StorePreferenceSome
  \/ RemovePreferenceSome
  \/ FireEvent
  \/ HandleSignal
  \/ SignIn
  \/ InitSucceeds
  \/ InitFails

(***************************************************************************)
(* REQUEST HANDLERS: what the host gets back from a handler whose work fails *)
(***************************************************************************)
\* handler calls enumerated
MaxCalls == 2

Handlers ==
  {"Inline Completion", "Panel Chat", "Inline Chat", "Commit Message", "Configure Model"}

\* the awaits of a handler's work, each of which may reject: encode and invoke;
\* the prompt, streamText and the stream of a chat; the prompt and generateText of
\* the commit message; the callback of the configure-model quick pick
AwaitCount(h) ==
  CASE h = "Inline Completion" -> 2
    [] h = "Panel Chat" -> 3
    [] h = "Inline Chat" -> 3
    [] h = "Commit Message" -> 2
    [] OTHER -> 1

\* the handlers that look up a provider first and return a normal result without
\* one
LooksUpProvider(h) == h # "Configure Model"

\* a handler with no provider that logs and notifies an error before it returns:
\* only the commit-message command calls logger.notifyError
NoProviderNotifies(h) == h = "Commit Message"

\* the catch of a handler logs and notifies; the one of the inline completion
\* provider only if the signal is not aborted
CatchLogs(h, aborted) == IF h = "Inline Completion" THEN LogsError(aborted) ELSE TRUE

\* what the catch of a handler ends with: the inline-chat handler ends with
\* `throw error`, the others return or resolve
CatchOutcome(h) == IF h = "Inline Chat" THEN "rejected" ELSE "returned"

\* a call: the await it stands at (0 once it is over), whether its token was
\* cancelled, what the host got back, whether the work failed and whether an
\* error was logged and notified
Call(h, await, outcome, logged) ==
  [handler |-> h, await |-> await, aborted |-> FALSE, outcome |-> outcome,
   failed |-> FALSE, logged |-> logged]

CallIds == 1..Len(calls)

HandlerInit == calls = <<>>

HandlerIdle == calls = <<>>

\* the host calls handler h; without a provider it returns at once
HandlerCalled(h, present) ==
  /\ Len(calls) < MaxCalls
  /\ calls' = Append(calls,
                 IF LooksUpProvider(h) /\ ~present
                 THEN Call(h, 0, "returned", NoProviderNotifies(h))
                 ELSE Call(h, 1, "pending", FALSE))
  /\ UNCHANGED handlerOthers

\* the await call c stands at resolves: the work goes on, or is over and the
\* handler returns its result
AwaitResolves(c) ==
  /\ calls[c].await > 0
  /\ calls' = [calls EXCEPT
                 ![c].await = IF calls[c].await < AwaitCount(calls[c].handler)
                              THEN calls[c].await + 1 ELSE 0,
                 ![c].outcome = IF calls[c].await < AwaitCount(calls[c].handler)
                                THEN "pending" ELSE "returned"]
  /\ UNCHANGED handlerOthers

\* the await call c stands at rejects (a failed model call, a thrown Error): the
\* catch of the handler runs
AwaitRejects(c) ==
  /\ calls[c].await > 0
  /\ calls' = [calls EXCEPT
                 ![c].await = 0,
                 ![c].failed = TRUE,
                 ![c].logged = CatchLogs(calls[c].handler, calls[c].aborted),
                 ![c].outcome = CatchOutcome(calls[c].handler)]
  /\ UNCHANGED handlerOthers

\* the host cancels the token of call c: the abort signal is set
CancelCall(c) ==
  /\ calls[c].await > 0
  /\ LooksUpProvider(calls[c].handler)
  /\ ~calls[c].aborted
  /\ calls' = [calls EXCEPT ![c].aborted = TRUE]
  /\ UNCHANGED handlerOthers

HandlerCalledSome == \E h \in Handlers, present \in BOOLEAN : HandlerCalled(h, present)

AwaitResolvesSome == \E c \in CallIds : AwaitResolves(c)

AwaitRejectsSome == \E c \in CallIds : AwaitRejects(c)

CancelCallSome == \E c \in CallIds : CancelCall(c)

HandlerNext ==
  \/ HandlerCalledSome
  \/ AwaitResolvesSome
  \/ AwaitRejectsSome
  \/ CancelCallSome

(***************************************************************************)
(* PROMPT OF A GENERATION (generateCompletions, from the ranges to invoke)  *)
(***************************************************************************)
\* longest document text enumerated for the prompt
MaxPromptDocLen == 3

\* the budgets enumerated: one that truncates, one larger than every text
PromptLimits == {6, 100}

\* the setting codeart.completions.contextPrefixWeight, times four
PromptWeightQuarters == 3

\* the tokenizer is external: one token per character, decode the inverse of
\* encode
TokenOf(c) == CASE c = "a" -> 1 [] c = " " -> 2 [] OTHER -> 3

CharOf(t) == CASE t = 1 -> "a" [] t = 2 -> " " [] OTHER -> "\n"

Encode(text) == [i \in 1..Len(text) |-> TokenOf(text[i])]

Decode(tokens) == [i \in 1..Len(tokens) |-> CharOf(tokens[i])]

\* the file header: two comment lines joined by "\n"
HeaderText == <<"a", "\n", "a">>

\* a prefix range that always ends at the cursor
PrefixTextToCursor(text, pos) == GetText(text, 0, pos)

\* "Get the prefix for prompt": the text up to the start of the cursor's line,
\* and up to the cursor if the line has non-whitespace text before it
PrefixText(text, pos) ==
  IF Trim(GetText(text, LineStart(text, pos), pos)) # <<>>
  THEN GetText(text, 0, pos)
  ELSE GetText(text, 0, LineStart(text, pos))

\* "Get the suffix for prompt": the text from the line after the cursor's, and
\* from the cursor if the rest of its line has an alphanumeric character
SuffixText(text, pos) ==
  IF HasAlnum(Trim(GetText(text, pos, LineEnd(text, pos))))
  THEN GetText(text, pos, Len(text))
  ELSE GetText(text, Min(LineEnd(text, pos) + 1, Len(text)), Len(text))

\* String.prototype.split("\n")
RECURSIVE SplitLines(_)
SplitLines(text) ==
  IF IndexOf(text, "\n") < 0 THEN <<text>>
  ELSE <<SubSeq(text, 1, IndexOf(text, "\n"))>>
         \o SplitLines(SubSeq(text, IndexOf(text, "\n") + 2, Len(text)))

\* suffix.split("\n").map(trim).filter(nonempty)
SuffixLines(suffix) ==
  LET lines == SplitLines(suffix)
      NonEmpty(line) == line # <<>>
  IN  SelectSeq([i \in 1..Len(lines) |-> Trim(lines[i])], NonEmpty)

\* stop sequences that take the cache into account
StopSequencesCached(lineText, suffix) ==
  IF pCache.prefix # <<>> THEN << <<"\n">>, pCache.prefix >>
  ELSE IF Trim(lineText) # <<>> THEN << <<"\n">> >> ELSE << <<"\n", "\n">> >>

\* the stop sequences: one line break on a line with content, two otherwise, and
\* the first non-blank line of the suffix if it has more than one
StopSequences(lineText, suffix) ==
  (IF Trim(lineText) # <<>> THEN << <<"\n">> >> ELSE << <<"\n", "\n">> >>)
    \o (IF Len(SuffixLines(suffix)) > 1 THEN <<SuffixLines(suffix)[1]>> ELSE <<>>)

\* a prefix that is encoded as it was read
EncodedPrefixTextRaw(prefixText) == prefixText

\* provider.encode(prefixText.trimStart())
EncodedPrefixText(prefixText) == TrimStart(prefixText)

\* the prompt sent to provider.invoke for the texts read at the start of the
\* generation, the budget and the text of the cursor's line read after the awaits
PromptFor(prefixText, suffixText, limit, lineText) ==
  LET headerToks == Encode(HeaderText \o <<"\n", "\n">>)
      maxP       == MaxPrefixLength(limit, PromptWeightQuarters, Len(headerToks))
      maxS       == MaxSuffixLength(limit, maxP, Len(headerToks))
      t          == TruncateTokens(Encode(EncodedPrefixText(prefixText)),
                                   Encode(TrimEnd(suffixText)), limit, maxP, maxS)
      prefix     == Decode(headerToks \o t.prefix)
      suffix     == IF t.suffix = <<>> THEN <<>> ELSE Decode(t.suffix)
  IN  [prefix |-> TrimStart(prefix),
       suffix |-> TrimEnd(suffix),
       stop   |-> StopSequences(lineText, suffix)]

\* a generation: the document text and the cursor at its start, the budget, the
\* text of the cursor's line once the tokens are decoded, the prompt, the model's
\* response and the completion emitted
NoGen ==
  [phase |-> "idle", text |-> <<>>, pos |-> 0, limit |-> 0, lineText |-> <<>>,
   prefix |-> <<>>, suffix |-> <<>>, stop |-> <<>>, response |-> <<>>,
   insertText |-> <<>>, rangeStart |-> 0, rangeEnd |-> 0]

PromptInit ==
  /\ pDoc \in Strings(MaxPromptDocLen)
  /\ pLimit \in PromptLimits
  /\ pCache = [prefix |-> <<>>, suffix |-> <<>>]
  /\ pGen = NoGen
  /\ pFirst = NoGen

PromptIdle ==
  /\ pDoc = <<>>
  /\ pLimit = 100
  /\ pCache = [prefix |-> <<>>, suffix |-> <<>>]
  /\ pGen = NoGen
  /\ pFirst = NoGen

\* the model responses enumerated: none, one character, and one followed by a
\* blank line
PromptResponses == {<<>>, <<"a">>, <<"a", "\n">>}

\* generateCompletions starts for a cursor position: the budget is read, and the
\* prefix and suffix texts, before the first await; two generations are followed
StartGeneration(pos) ==
  /\ pGen.phase = "idle"
  /\ pGen' = [NoGen EXCEPT !.phase = "encoding", !.text = pDoc, !.pos = pos,
                           !.limit = pLimit]
  /\ UNCHANGED <<pDoc, pLimit, pCache, pFirst>>
  /\ UNCHANGED promptOthers

\* the user types a character at the cursor while the tokens are encoded
TypeWhileEncoding ==
  /\ pGen.phase = "encoding"
  /\ Len(pDoc) < MaxPromptDocLen
  /\ pDoc' = GetText(pDoc, 0, pGen.pos) \o <<"a">> \o GetText(pDoc, pGen.pos, Len(pDoc))
  /\ UNCHANGED <<pLimit, pCache, pGen, pFirst>>
  /\ UNCHANGED promptOthers

\* the tokens are decoded, the stop sequences taken from the live document, and
\* provider.invoke returns a response: empty, or emitted as a completion and kept
\* in the cache
InvokeWith(response) ==
  /\ pGen.phase = "encoding"
  /\ LET lineText == GetText(pDoc, LineStart(pDoc, pGen.pos), LineEnd(pDoc, pGen.pos))
         prompt   == PromptFor(PrefixText(pGen.text, pGen.pos),
                               SuffixText(pGen.text, pGen.pos), pGen.limit, lineText)
         c        == CompletionFor(pGen.text, pGen.pos, response)
         done     == [pGen EXCEPT !.phase = "done", !.lineText = lineText,
                        !.prefix = prompt.prefix, !.suffix = prompt.suffix,
                        !.stop = prompt.stop, !.response = response,
                        !.insertText = IF response = <<>> THEN <<>> ELSE c.insertText,
                        !.rangeStart = c.rangeStart, !.rangeEnd = c.rangeEnd]
     IN  /\ pGen' = IF pFirst = NoGen THEN NoGen ELSE done
         /\ pFirst' = IF pFirst = NoGen THEN done ELSE pFirst
         /\ pCache' = IF response = <<>> THEN pCache
                      ELSE [prefix |-> c.cachePrefix,
                            suffix |-> GetText(pDoc, c.rangeEnd, Len(pDoc))]
  /\ UNCHANGED <<pDoc, pLimit>>
  /\ UNCHANGED promptOthers

\* the user changes the setting codeart.completions.maxTokenUsage between the two
\* generations
ChangeLimit ==
  /\ pGen.phase = "idle"
  /\ pFirst # NoGen
  /\ pLimit = pFirst.limit
  /\ pLimit' \in PromptLimits \ {pLimit}
  /\ UNCHANGED <<pDoc, pCache, pGen, pFirst>>
  /\ UNCHANGED promptOthers

StartGenerationSome == \E pos \in 0..Len(pDoc) : StartGeneration(pos)

InvokeWithSome == \E response \in PromptResponses : InvokeWith(response)

PromptNext ==
  \/ StartGenerationSome
  \/ TypeWhileEncoding
  \/ InvokeWithSome
  \/ ChangeLimit

(***************************************************************************)
(* ONE CALL WITH ITS TEXTS (provideInlineCompletionItems: the icon and the  *)
(* cache check, the timer, generateCompletions and the entry it stores)     *)
(***************************************************************************)
\* longest document text a behaviour starts from
MaxServeDocLen == 2

\* an alphanumeric character, a closing bracket, a blank and a line break
ServeChars == {"a", ")", " ", "\n"}

ServeStrings(n) == UNION {[1..k -> ServeChars] : k \in 0..n}

\* the model responses enumerated: none, a word, a bracket, a word closed by a
\* bracket, and a blank line
ServeResponses == {<<>>, <<"a">>, <<")">>, <<"a", ")">>, <<"\n">>}

\* the characters the user types while a call is pending
TypedChars == {"a"}

NoEntry == [prefix |-> <<>>, suffix |-> <<>>]

\* a call: where it stands, its position, the document text generateCompletions
\* read before its first await (while it runs), how the promise was answered and
\* with which item,
\* whether a timer was armed, provider.invoke called, the signal aborted, and
\* the model's response
NoCall ==
  [pc |-> "idle", pos |-> 0, text |-> <<>>, answer |-> "none", insertText |-> <<>>,
   rangeStart |-> 0, rangeEnd |-> 0, timer |-> FALSE, invoked |-> FALSE,
   aborted |-> FALSE, response |-> <<>>]

\* a call that arms its timer even when the cache holds its completion
ArrivalPcAlwaysDebounce(disabled, hit) == IF disabled THEN "resolved" ELSE "debounce"

\* provideInlineCompletionItems up to its return: the empty list when the icon is
\* disabled, the cached item on a hit, the promise around the timer otherwise
ArrivalPc(disabled, hit) == IF disabled \/ hit THEN "resolved" ELSE "debounce"

\* a generation that stores its entry whatever the response
EntryAfterAlways(cache, response, entry) == entry

\* generateCompletions returns on `!response` before it touches the cache, and
\* overwrites cachePrefix and cacheSuffix otherwise
EntryAfter(cache, response, entry) == IF response = <<>> THEN cache ELSE entry

ServeInit ==
  /\ svDoc \in ServeStrings(MaxServeDocLen)
  /\ svCache = NoEntry
  /\ svCall = NoCall
  /\ svIcon \in {"enabled", "disabled"}
  /\ svBlocked \in {"no", "language", "provider"}

ServeIdle ==
  /\ svDoc = <<>>
  /\ svCache = NoEntry
  /\ svCall = NoCall
  /\ svIcon = "disabled"
  /\ svBlocked = "provider"

\* the host calls provideInlineCompletionItems for a position, the call before
\* being over
Arrive(pos) ==
  /\ svCall.pc \in {"idle", "resolved", "cleared"}
  /\ LET hit == CheckCompletionCache(svDoc, pos, svCache.prefix, svCache.suffix)
         pc  == ArrivalPc(svIcon = "disabled", hit.kind = "hit")
     IN  svCall' =
           IF svIcon = "disabled"
           THEN [NoCall EXCEPT !.pc = pc, !.pos = pos, !.answer = "empty"]
           ELSE IF pc = "resolved"
           THEN [NoCall EXCEPT !.pc = pc, !.pos = pos, !.answer = "cached",
                               !.insertText = hit.insertText,
                               !.rangeStart = hit.rangeStart, !.rangeEnd = hit.rangeEnd]
           ELSE [NoCall EXCEPT !.pc = pc, !.pos = pos, !.timer = TRUE]
  /\ UNCHANGED <<svDoc, svCache, svIcon, svBlocked>>
  /\ UNCHANGED serveOthers

\* the timer fires: generateCompletions returns the empty list for a disabled
\* language or a missing provider, and otherwise reads the texts around the
\* position and goes on to its awaits
ServeTimerFires ==
  /\ svCall.pc = "debounce"
  /\ svCall' = IF svBlocked # "no"
               THEN [svCall EXCEPT !.pc = "resolved", !.answer = "empty"]
               ELSE [svCall EXCEPT !.pc = "generating", !.text = svDoc]
  /\ UNCHANGED <<svDoc, svCache, svIcon, svBlocked>>
  /\ UNCHANGED serveOthers

\* the user types a character at the position of the call while it is pending
TypeChar(c) ==
  /\ svCall.pc \in {"debounce", "generating"}
  /\ Len(svDoc) <= MaxServeDocLen
  /\ svDoc' = GetText(svDoc, 0, svCall.pos) \o <<c>> \o GetText(svDoc, svCall.pos, Len(svDoc))
  /\ UNCHANGED <<svCache, svCall, svIcon, svBlocked>>
  /\ UNCHANGED serveOthers

\* provider.invoke returns: an empty response answers with the empty list; any
\* other is emitted as the completion, and the cache entry is taken from the live
\* document around the insertion range
ServeInvokeReturns(response) ==
  /\ svCall.pc = "generating"
  /\ LET c     == CompletionFor(svCall.text, svCall.pos, response)
         entry == [prefix |-> c.cachePrefix,
                   suffix |-> GetText(svDoc, c.rangeEnd, Len(svDoc))]
     IN  /\ svCache' = EntryAfter(svCache, response, entry)
         /\ svCall' = IF response = <<>>
                      THEN [svCall EXCEPT !.pc = "resolved", !.answer = "empty",
                                          !.invoked = TRUE, !.text = <<>>]
                      ELSE [svCall EXCEPT !.pc = "resolved", !.answer = "list",
                                          !.invoked = TRUE, !.text = <<>>,
                                          !.response = response,
                                          !.insertText = c.insertText,
                                          !.rangeStart = c.rangeStart,
                                          !.rangeEnd = c.rangeEnd]
  /\ UNCHANGED <<svDoc, svIcon, svBlocked>>
  /\ UNCHANGED serveOthers

\* an await of generateCompletions rejects, before provider.invoke or in it: the
\* catch answers with the empty list
ServeGenerationFails ==
  /\ svCall.pc = "generating"
  /\ \E invoked \in BOOLEAN :
       svCall' = [svCall EXCEPT !.pc = "resolved", !.answer = "empty",
                                !.invoked = invoked, !.text = <<>>]
  /\ UNCHANGED <<svDoc, svCache, svIcon, svBlocked>>
  /\ UNCHANGED serveOthers

\* the host cancels the token of the call
ServeCancel ==
  /\ svCall.pc \in {"debounce", "generating"}
  /\ ~svCall.aborted
  /\ svCall' = [svCall EXCEPT !.pc = CancelledPc(svCall.pc), !.aborted = TRUE]
  /\ UNCHANGED <<svDoc, svCache, svIcon, svBlocked>>
  /\ UNCHANGED serveOthers

ArriveSome == \E pos \in 0..Len(svDoc) : Arrive(pos)

TypeCharSome == \E c \in TypedChars : TypeChar(c)

ServeInvokeReturnsSome == \E response \in ServeResponses : ServeInvokeReturns(response)

ServeNext ==
  \/ ArriveSome
  \/ ServeTimerFires
  \/ TypeCharSome
  \/ ServeInvokeReturnsSome
  \/ ServeGenerationFails
  \/ ServeCancel

(***************************************************************************)
(* SESSION MANAGER (handleSessionChange and the session features)          *)
(***************************************************************************)
\* runs of handleSessionChange enumerated: the one of register() and those of
\* the onDidChangeSessions events
MaxRuns == 3

\* PanelChatParticipant, InlineCompletionProvider, InlineChatParticipant
SessionFeatures == {"panel chat", "inline completion", "inline chat"}

\* a run: where it stands, and the session its getSession found
SessionRun(pc, session) == [pc |-> pc, session |-> session]

\* a sign-out that leaves the features registered
DisposedKept(registered) == registered

\* disposeSessionFeatures: each feature's dispose() clears its static instance
Disposed(registered) == {}

\* registerSessionFeatures: each feature's register() sets its static instance
Registered(registered) == registered \cup SessionFeatures

\* SessionManager.register(): the instance is created and handleSessionChange
\* called, which awaits getSession
SessionInit ==
  /\ authSession \in {"none", "user"}
  /\ sessionRuns = <<SessionRun("lookup", "unset")>>
  /\ storedSession = "unset"
  /\ instances = {}
  /\ lastLookup = "unset"

SessionIdle ==
  /\ authSession = "none"
  /\ sessionRuns = <<>>
  /\ storedSession = "unset"
  /\ instances = {}
  /\ lastLookup = "unset"

\* the user signs in or out: onDidChangeSessions calls handleSessionChange, which
\* awaits getSession
SessionChanges ==
  /\ Len(sessionRuns) < MaxRuns
  /\ authSession' = IF authSession = "user" THEN "none" ELSE "user"
  /\ sessionRuns' = Append(sessionRuns, SessionRun("lookup", "unset"))
  /\ UNCHANGED <<storedSession, instances, lastLookup>>
  /\ UNCHANGED sessionOthers

\* getSession of run r resolves; the run goes on to await checkNewlyInstalled
LookupResolves(r) ==
  /\ sessionRuns[r].pc = "lookup"
  /\ sessionRuns' = [sessionRuns EXCEPT ![r] = SessionRun("install", authSession)]
  /\ lastLookup' = authSession
  /\ UNCHANGED <<authSession, storedSession, instances>>
  /\ UNCHANGED sessionOthers

\* checkNewlyInstalled of run r resolves: the session is stored; with a session
\* handleActiveSession starts and stops at its await, without one handleNoSession
\* disposes the features
InstallChecked(r) ==
  /\ sessionRuns[r].pc = "install"
  /\ storedSession' = sessionRuns[r].session
  /\ IF sessionRuns[r].session = "user"
     THEN /\ sessionRuns' = [sessionRuns EXCEPT ![r].pc = "active"]
          /\ UNCHANGED instances
     ELSE /\ sessionRuns' = [sessionRuns EXCEPT ![r].pc = "done"]
          /\ instances' = Disposed(instances)
  /\ UNCHANGED <<authSession, lastLookup>>
  /\ UNCHANGED sessionOthers

\* handleActiveSession of run r goes on after `await storage.get("github.support")`:
\* registerSessionFeatures
FeaturesRegistered(r) ==
  /\ sessionRuns[r].pc = "active"
  /\ sessionRuns' = [sessionRuns EXCEPT ![r].pc = "done"]
  /\ instances' = Registered(instances)
  /\ UNCHANGED <<authSession, storedSession, lastLookup>>
  /\ UNCHANGED sessionOthers

LookupResolvesSome == \E r \in 1..Len(sessionRuns) : LookupResolves(r)

InstallCheckedSome == \E r \in 1..Len(sessionRuns) : InstallChecked(r)

FeaturesRegisteredSome == \E r \in 1..Len(sessionRuns) : FeaturesRegistered(r)

SessionNext ==
  \/ SessionChanges
  \/ LookupResolvesSome
  \/ InstallCheckedSome
  \/ FeaturesRegisteredSome

(***************************************************************************)
(* Specifications.                                                         *)
(***************************************************************************)
vars == <<asmVars, cacheVars, reqVars, storeVars, regVars, handlerVars, promptVars,
          serveVars, sessionVars>>

AsmSpecInit == AsmInit /\ CacheIdle /\ ReqIdle /\ StoreInit /\ RegInit /\ HandlerIdle /\ PromptIdle
    /\ ServeIdle /\ SessionIdle

ReqSpecInit == ReqInit /\ AsmIdle /\ CacheIdle /\ StoreInit /\ RegInit /\ HandlerIdle /\ PromptIdle
    /\ ServeIdle /\ SessionIdle

StoreSpecInit ==
  StoreInit /\ RegInit /\ AsmIdle /\ CacheIdle /\ ReqIdle /\ HandlerIdle /\ PromptIdle
    /\ ServeIdle /\ SessionIdle

HandlerSpecInit ==
  HandlerInit /\ AsmIdle /\ CacheIdle /\ ReqIdle /\ StoreInit /\ RegInit /\ PromptIdle
    /\ ServeIdle /\ SessionIdle

PromptSpecInit ==
  PromptInit /\ AsmIdle /\ CacheIdle /\ ReqIdle /\ StoreInit /\ RegInit /\ HandlerIdle
    /\ ServeIdle /\ SessionIdle

SpecPrompt == PromptSpecInit /\ [][PromptNext]_vars

SpecHandlers == HandlerSpecInit /\ [][HandlerNext]_vars

SpecStore == StoreSpecInit /\ [][StoreNext]_vars

SpecRegistry == StoreSpecInit /\ [][RegNext]_vars

SpecRequests == ReqSpecInit /\ [][ReqNext]_vars

\* a timer that is armed fires, and an await of generateCompletions settles: the
\* tokenizer and the provider's request resolve or reject
ReqFairness ==
  \A r \in 1..MaxRequests :
    /\ WF_vars(r \in RequestIds /\ TimerFires(r))
    /\ WF_vars(r \in RequestIds /\ EncodeDone(r))
    /\ WF_vars(r \in RequestIds /\ (InvokeReturns(r) \/ GenerationFails(r)))

SpecRequestsFair == ReqSpecInit /\ [][ReqNext]_vars /\ ReqFairness

ServeSpecInit ==
  ServeInit /\ AsmIdle /\ CacheIdle /\ ReqIdle /\ StoreInit /\ RegInit /\ HandlerIdle
    /\ PromptIdle /\ SessionIdle

SpecServe == ServeSpecInit /\ [][ServeNext]_vars

SessionSpecInit ==
  SessionInit /\ AsmIdle /\ CacheIdle /\ ReqIdle /\ StoreInit /\ RegInit /\ HandlerIdle
    /\ PromptIdle /\ ServeIdle

SpecSession == SessionSpecInit /\ [][SessionNext]_vars

SpecAsm == AsmSpecInit /\ [][AsmNext]_vars

CacheSpecInit == CacheInit /\ AsmIdle /\ ReqIdle /\ StoreInit /\ RegInit /\ HandlerIdle /\ PromptIdle
    /\ ServeIdle /\ SessionIdle

SpecCache == CacheSpecInit /\ [][CacheNext]_vars

(***************************************************************************)
(* Claims about the assembler.                                             *)
(***************************************************************************)
\* the token count that is sent on, once truncated (the header is counted once)
SentTokenCount ==
  IF asmPc = "assembled"
  THEN Len(prefixTokens) + Len(suffixTokens)
  ELSE Len(prefixTokens) + Len(suffixTokens) + Len(headerTokens)

\* C1: after the truncation step the tokens sent on are within the budget,
\* prefixTokens.length + suffixTokens.length + headerTokens.length <= promptTokenLimit,
\* in every branch of the truncation.
C1_WithinBudget ==
  asmPc \in {"truncated", "assembled"} => SentTokenCount <= promptTokenLimit

\* the scenario of the worked example: tokenLimit 100, header 10, weight 0.75,
\* prefix 200 tokens, suffix 10 tokens
ExampleScenario ==
  /\ promptTokenLimit = 100
  /\ Len(headerTokens) = 10
  /\ weightQuarters = 3
  /\ Len(encPrefixTokens) = 200
  /\ Len(encSuffixTokens) = 10

LastTokens(s, k) == SubSeq(s, Len(s) - k + 1, Len(s))

LivePrefix == GetText(docText, 0, cursor)

LiveSuffix == GetText(docText, cursor, Len(docText))

CacheRemainder == SubSeq(cachePrefix, Len(LivePrefix) + 1, Len(cachePrefix))

IsHit(r) == r.kind = "hit"

\* C5 as stated: checkCompletionCache returns the unconsumed remainder of the cached
\* prefix exactly when the cached prefix starts with the live prefix, the cached
\* suffix equals the live suffix and both cached strings are non-empty; nothing otherwise.
C5_CacheHitLawAsStated ==
  cacheResult.kind # "unchecked" =>
    IF /\ StartsWith(cachePrefix, LivePrefix)
       /\ cacheSuffix = LiveSuffix
       /\ cachePrefix # <<>>
       /\ cacheSuffix # <<>>
    THEN IsHit(cacheResult) /\ cacheResult.insertText = CacheRemainder
    ELSE cacheResult = CacheMiss

\* C5 amended: ... exactly when the cached prefix starts with the live prefix, the
\* cached suffix equals the live suffix and both cached strings hold a character
\* that is not white space; nothing otherwise.
C5_CacheHitLaw ==
  cacheResult.kind # "unchecked" =>
    IF /\ StartsWith(cachePrefix, LivePrefix)
       /\ cacheSuffix = LiveSuffix
       /\ \E i \in 1..Len(cachePrefix) : ~IsSpace(cachePrefix[i])
       /\ \E i \in 1..Len(cacheSuffix) : ~IsSpace(cacheSuffix[i])
    THEN IsHit(cacheResult) /\ cacheResult.insertText = CacheRemainder
    ELSE cacheResult = CacheMiss

\* a hit that returns a non-empty remainder
C5_Witness ==
  /\ IsHit(cacheResult)
  /\ cacheResult.insertText # <<>>
  /\ cacheResult.insertText = CacheRemainder

(***************************************************************************)
(* Claims about the debounced requests.                                    *)
(***************************************************************************)
\* the calls that have called provider.invoke
Invokers == {r \in RequestIds : requests[r].invoked # "no"}

\* the calls whose timer is armed
PendingTimers == {r \in RequestIds : requests[r].pc = "debounce"}

\* the calls that hold a pending timer or a generation whose signal is not aborted
InFlight ==
  {r \in RequestIds :
     \/ requests[r].pc = "debounce"
     \/ requests[r].pc \in {"encoding", "invoking"} /\ ~requests[r].aborted}

\* the last call was answered with a generated completion
LastCompleted ==
  /\ requests # <<>>
  /\ requests[Len(requests)].pc = "resolved"
  /\ requests[Len(requests)].result = "list"

C4_OneInFlightAsStated == Cardinality(InFlight) <= 1

\* C4 amended: as long as the host has cancelled, at every call, the token of each
\* earlier call that was not answered yet, at most one generation is in flight.
C4_OneInFlight == hostCancelled => Cardinality(InFlight) <= 1

\* a second call in flight after the first one was cancelled while it was pending
C4_Witness ==
  /\ hostCancelled
  /\ Len(requests) >= 2
  /\ \E r \in RequestIds : r < Len(requests) /\ requests[r].aborted
  /\ InFlight = {Len(requests)}

(***************************************************************************)
(* Claims about the configuration store.                                   *)
(***************************************************************************)
\* a deletion has run to its end
DeletionDone == op.kind = "delete" /\ op.pc = "done"

\* the steps deleteConfirmationDialog takes
DeletionStep == DeleteStartSome \/ DeleteResume

\* C6: once deleteConfirmationDialog has completed for a confirmed nickname, the
\* ModelConfig of the nickname is gone and no location has a preference that names
\* it; and no step of the deletion changes the preference of a location bound to
\* another nickname.
C6_DeletionCascade ==
  /\ [](DeletionDone =>
          /\ configs[op.nick] = NoConfig
          /\ \A loc \in LocationNames : prefs[loc].nickname # op.nick)
  /\ [][DeletionStep =>
          \A loc \in LocationNames :
            prefs[loc].nickname # op'.nick => prefs'[loc] = prefs[loc]]_vars

\* a deletion completed that removed a preference and left another one in place
C6_Witness ==
  /\ DeletionDone
  /\ op.idx > 1
  /\ \E loc \in LocationNames : prefs[loc] # NoPref

\* C7: in every reachable state of the store, every stored preference names a
\* nickname for which a ModelConfig is stored.
C7_PrefsNameConfigs ==
  \A loc \in LocationNames :
    prefs[loc] # NoPref => configs[prefs[loc].nickname] # NoConfig

(***************************************************************************)
(* Claims about the provider registry.                                     *)
(***************************************************************************)
\* the pass that started last has finished, no other pass was in flight when it
\* started, and the store was not written since it started
IsolatedPassDone == lastPass.result = "completed" /\ lastPass.alone /\ lastPass.clean

\* the initializer of the adapter of a location succeeded in the pass that started
\* last (a chat adapter's initialize() is Promise.resolve())
InitializerSucceeded(loc) == LocationType(loc) = "chat" \/ lastPass.initOk

FailedSlots ==
  Throwing(prefs, configs)
  \cup {loc \in LocationNames :
          /\ Resolve(prefs[loc], configs) # NoAdapter
          /\ ~InitializerSucceeded(loc)}

\* C9: updateProviders never rejects; and in a pass in which the resolution of a
\* location failed, that location is left without an entry and every other location
\* is resolved according to its own preference.
C9_FailureIsolation ==
  /\ lastPass.result # "rejected"
  /\ IsolatedPassDone =>
       \A loc \in LocationNames :
         modelProviders[loc] = IF loc \in FailedSlots THEN NoAdapter
                               ELSE Resolve(prefs[loc], configs)

\* a pass finished in which one location failed and another one was resolved
C9_Witness ==
  /\ IsolatedPassDone
  /\ FailedSlots # {}
  /\ \E loc \in LocationNames : loc \notin FailedSlots /\ modelProviders[loc] # NoAdapter

\* every pass has finished and the store was not written since the last one started
AllPassesDone == inits = <<>> /\ lastPass.result = "completed" /\ lastPass.clean

\* C10: after overlapping passes have all finished, every location is bound as the
\* preference current at the latest event says: an adapter is bound only to a
\* location whose preference names its nickname and provider id.
C10_LastPassWins ==
  AllPassesDone =>
    \A loc \in LocationNames :
      modelProviders[loc] # NoAdapter =>
        /\ prefs[loc] # NoPref
        /\ modelProviders[loc].nickname = prefs[loc].nickname
        /\ modelProviders[loc].providerId = prefs[loc].providerId

\* the timer of call r fires in this step while no provider is resolved
NoProviderStep(r) ==
  /\ r <= Len(requests)
  /\ requests[r].pc = "debounce"
  /\ r <= Len(requests')
  /\ requests'[r].pc \notin {"debounce", "cleared"}
  /\ ~providerPresent

\* C11: a call whose timer fires while no provider is resolved for "Inline
\* Completion" is answered in that step with the empty list, has called no model
\* and logged no error, and the step leaves the completion cache as it was; a
\* call arriving while the status icon is disabled is answered with the empty
\* list at once, in the same way
C11_NoProvider ==
  /\ [][\A r \in 1..MaxRequests :
          NoProviderStep(r) =>
            /\ requests'[r].pc = "resolved"
            /\ requests'[r].result = "empty"
            /\ requests'[r].invoked = "no"
            /\ ~requests'[r].errored
            /\ cacheFilled' = cacheFilled]_vars
  /\ [][(Len(requests') > Len(requests) /\ statusState = "disabled") =>
          /\ requests'[Len(requests')] = Request("resolved", "empty")
          /\ cacheFilled' = cacheFilled]_vars

\* C11 as stated: a call arriving while no provider is resolved is never answered
\* with a completion, and one whose timer fires then is answered with the empty list
C11_NoProviderAsStated ==
  [][/\ (Len(requests') > Len(requests) /\ ~providerPresent) =>
          requests'[Len(requests')].result \in {"none", "empty"}
     /\ \A r \in 1..MaxRequests :
          NoProviderStep(r) => requests'[r] = Request("resolved", "empty")]_vars

\* one call went to the timer and was answered with the empty list without a
\* failure, a cancellation or a disabled language, while no provider is resolved
C11_Witness ==
  /\ Len(requests) = 1
  /\ allInWindow
  /\ requests[1] = Request("resolved", "empty")
  /\ ~providerPresent
  /\ ~langDisabled
  /\ statusState = "enabled"

\* call r is answered in this step, from the state named by pc
AnsweredFrom(r, pc) ==
  /\ r <= Len(requests)
  /\ requests[r].pc = pc
  /\ requests'[r].pc = "resolved"

\* C12: a generation that fails after the call's cancellation was requested is
\* answered with the empty list and logs and notifies no error; an error is logged
\* and notified only for a failed generation of a call that was not cancelled,
\* which is answered with the empty list too
C12_CancelledFailure ==
  /\ [](\A r \in RequestIds :
          requests[r].errored =>
            /\ ~requests[r].aborted
            /\ requests[r].pc = "resolved"
            /\ requests[r].result = "empty")
  /\ [][\A r \in 1..MaxRequests :
          /\ AnsweredFrom(r, "encoding") =>
               /\ requests'[r].result = "empty"
               /\ requests'[r].errored = ~requests[r].aborted
          /\ (AnsweredFrom(r, "invoking") /\ requests[r].aborted) =>
               ~requests'[r].errored
          /\ (AnsweredFrom(r, "invoking") /\ requests'[r].errored) =>
               requests'[r].result = "empty"]_vars

\* a cancelled call whose generation failed before provider.invoke, answered with
\* the empty list and no error, next to a failed call that was not cancelled
C12_Witness ==
  \E r, q \in RequestIds :
    /\ requests[r].pc = "resolved"
    /\ requests[r].aborted
    /\ requests[r].invoked = "no"
    /\ requests[r].result = "empty"
    /\ ~requests[r].errored
    /\ requests[q].errored

\* C13: no handler lets an error escape to the host: a call whose work failed has
\* logged and notified the error and has returned a normal result
C13_NoErrorEscapes ==
  \A c \in CallIds :
    /\ calls[c].outcome # "rejected"
    /\ (calls[c].failed /\ ~calls[c].aborted) => calls[c].logged

\* a configure run of the command ends in this step with the given error caught
ConfigureCaught(error) ==
  /\ op.kind \in {"add", "edit"}
  /\ op.pc = "configuring"
  /\ op'.pc # "configuring"
  /\ caught' = error

\* C14: when the connectivity test call of a configure run fails (add-new or
\* edit), the error is notified and the step saves nothing: every ModelConfig and
\* preference is as before, the nickname of an add-new run has no ModelConfig, and
\* no modelProvidersUpdated event is fired
C14_FailedTestSavesNothing ==
  [][ConfigureCaught("test") =>
       /\ configs' = configs
       /\ apiKeys' = apiKeys
       /\ prefs' = prefs
       /\ signals' = signals
       /\ op.kind = "add" => configs'[op.nick] = NoConfig]_vars

\* n1 was added without a preference, then the test call of a configure run failed:
\* n1 is stored as before, n2 is absent and no event was ever fired
C14_Witness ==
  /\ caught = "test"
  /\ op = IdleOp
  /\ configs["n1"] # NoConfig
  /\ configs["n2"] = NoConfig
  /\ prefs = NoPrefs
  /\ signals = 0

\* C15: a cancelled input of a configure run aborts it silently: no error is
\* notified, and no ModelConfig or preference is written
C15_SilentCancel ==
  /\ [](caught # "cancelled")
  /\ [][ConfigureCaught("cancelled") =>
          /\ configs' = configs
          /\ apiKeys' = apiKeys
          /\ prefs' = prefs]_vars

\* the ModelConfig of nickname n as stored: its provider id and its API key
StoredConfig(n) == <<configs[n], apiKeys[n]>>

\* this step creates, alters or removes the ModelConfig of nickname n
ConfigCreated(n) == configs[n] = NoConfig /\ configs'[n] # NoConfig

ConfigAltered(n) ==
  /\ configs[n] # NoConfig
  /\ configs'[n] # NoConfig
  /\ StoredConfig(n)' # StoredConfig(n)

ConfigRemoved(n) == configs[n] # NoConfig /\ configs'[n] = NoConfig

\* this step is the successful end of a configure run for nickname n
ConfigureSucceeds(n) ==
  /\ op.kind \in {"add", "edit"}
  /\ op.pc = "configuring"
  /\ op.nick = n
  /\ op'.pc # "configuring"
  /\ caught' = "none"

\* this step is the user's confirmed deletion of nickname n
DeletionConfirmed(n) ==
  /\ OpFree
  /\ op'.kind = "delete"
  /\ op'.pc = "cascading"
  /\ op'.nick = n

\* this step is clearGlobalState removing the key of nickname n
ClearedKey(n) ==
  /\ <<"model", n>> \in StoredKeys
  /\ <<"model", n>> \notin clearing'
  /\ \A m \in Nicknames \ {n} : configs'[m] = configs[m]
  /\ UNCHANGED <<op, signals, prefs>>

\* C16 as stated: a ModelConfig is created and altered only by a successful
\* configure run of its nickname and removed only by the confirmed deletion of it
C16_ConfigFrameAsStated ==
  [][\A n \in Nicknames :
       /\ (ConfigCreated(n) \/ ConfigAltered(n)) => ConfigureSucceeds(n)
       /\ ConfigRemoved(n) => DeletionConfirmed(n)]_vars

\* C16: a ModelConfig is created and altered only by a successful configure run of
\* its nickname, and removed only by the confirmed deletion of that nickname or by
\* clearGlobalState (sign-out, first run) removing its key; a preference change, a
\* failed or cancelled configure run and the deletion of another nickname leave it
\* as it was
C16_ConfigFrame ==
  [][\A n \in Nicknames :
       /\ (ConfigCreated(n) \/ ConfigAltered(n)) => ConfigureSucceeds(n)
       /\ ConfigRemoved(n) => (DeletionConfirmed(n) \/ ClearedKey(n))]_vars

\* both nicknames are stored with different keys after an edit, while preferences
\* were written and a configure run failed
C16_Witness ==
  /\ configs["n1"] # NoConfig
  /\ configs["n2"] # NoConfig
  /\ apiKeys["n1"] # apiKeys["n2"]
  /\ prefs # NoPrefs
  /\ caught # "none"
  /\ signals >= 2
  /\ clearing = {}

\* the first k tokens of s
FirstTokens(s, k) == SubSeq(s, 1, k)

\* which of the encoded prefix and suffix is over its allotment
PrefixOver == Len(encPrefixTokens) > maxPrefixLength

SuffixOver == Len(encSuffixTokens) > maxSuffixLength

\* C19: when the prefix has more tokens than maxPrefixLength and the suffix more
\* than maxSuffixLength, the truncated prefix is the last maxPrefixLength tokens of
\* the prefix and the truncated suffix the first maxSuffixLength tokens of the
\* suffix, also when maxPrefixLength is 0 or negative (no prefix token is kept)
C19_BothOver ==
  (asmPc = "truncated" /\ PrefixOver /\ SuffixOver) =>
    /\ prefixTokens = LastTokens(encPrefixTokens, Max(maxPrefixLength, 0))
    /\ suffixTokens = FirstTokens(encSuffixTokens, maxSuffixLength)

\* s clipped to at most k tokens, k taken as 0 when negative
ClipLast(s, k) == LastTokens(s, Min(Len(s), Max(k, 0)))

ClipFirst(s, k) == FirstTokens(s, Min(Len(s), Max(k, 0)))

\* C20: when only the prefix is over its allotment it is clipped to its last
\* promptTokenLimit - suffix length tokens and the suffix is unchanged; when only
\* the suffix is over it is clipped to its first promptTokenLimit - prefix length
\* tokens and the prefix is unchanged; when neither is over both are unchanged
C20_OneOver ==
  asmPc = "truncated" =>
    /\ (PrefixOver /\ ~SuffixOver) =>
         /\ prefixTokens =
              ClipLast(encPrefixTokens, promptTokenLimit - Len(encSuffixTokens))
         /\ suffixTokens = encSuffixTokens
    /\ (~PrefixOver /\ SuffixOver) =>
         /\ prefixTokens = encPrefixTokens
         /\ suffixTokens =
              ClipFirst(encSuffixTokens, promptTokenLimit - Len(encPrefixTokens))
    /\ (~PrefixOver /\ ~SuffixOver) =>
         /\ prefixTokens = encPrefixTokens
         /\ suffixTokens = encSuffixTokens

(***************************************************************************)
(* Claims about the prompt of a generation.                                *)
(***************************************************************************)
\* the text of the cursor's line in the document the generation started with
LineTextAtStart(g) == GetText(g.text, LineStart(g.text, g.pos), LineEnd(g.text, g.pos))

\* two completed generations with the same document text (at their start and when
\* the stop sequences are taken), cursor position and budget
SameInputs(g, h) ==
  /\ g.phase = "done" /\ h.phase = "done"
  /\ g.text = h.text
  /\ g.lineText = h.lineText
  /\ g.pos = h.pos
  /\ g.limit = h.limit

TwoLineScenario(g) ==
  /\ g.phase = "done"
  /\ Cardinality({i \in 1..Len(g.text) : g.text[i] = "\n"}) = 1
  /\ g.pos = Len(g.text)
  /\ Trim(GetText(g.text, LineStart(g.text, g.pos), g.pos)) # <<>>
  /\ g.limit > Len(HeaderText) + 2 + Len(g.text)
  /\ g.lineText = LineTextAtStart(g)

\* the document text before the cursor once the completion of g is applied
AppliedBeforeCursor(g) == GetText(g.text, 0, g.rangeStart) \o g.insertText

\* s is t without its trailing blank lines: t goes on after s with blank lines
\* only, and s does not end with a blank line
IsWithoutTrailingBlankLines(s, t) ==
  /\ StartsWith(t, s)
  /\ Trim(SubSeq(t, Len(s) + 1, Len(t))) = <<>>
  /\ Len(s) < Len(t) => t[Len(s) + 1] = "\n"
  /\ s # <<>> => Trim(GetText(s, LineStart(s, Len(s)), Len(s))) # <<>>

\* the parts of the scenario's outcome that do not depend on the prefix
ScenarioOutcome(g) ==
  /\ g.suffix = <<>>
  /\ g.stop = << <<"\n">> >>
  /\ g.response # <<>> =>
       /\ g.rangeEnd = g.pos
       /\ IsWithoutTrailingBlankLines(AppliedBeforeCursor(g), g.text \o g.response)

\* C18 as stated: in the scenario the prompt prefix is the header followed by the
\* whole text up to the cursor
C18_TwoLineAsStated ==
  \A g \in {pFirst, pGen} :
    TwoLineScenario(g) =>
      /\ g.prefix = HeaderText \o <<"\n", "\n">> \o g.text
      /\ ScenarioOutcome(g)

\* C18: in the scenario the prompt prefix is the header followed by the text up to
\* the cursor without its leading whitespace, the suffix is empty, the stop
\* sequences are exactly one line break, and the completion puts the model output
\* at the cursor with its trailing blank lines removed
C18_TwoLine ==
  \A g \in {pFirst, pGen} :
    TwoLineScenario(g) =>
      /\ g.prefix = HeaderText \o <<"\n", "\n">> \o TrimStart(g.text)
      /\ ScenarioOutcome(g)

\* the scenario with a first line of one blank, and a response that ends with a
\* blank line
C18_Witness ==
  /\ TwoLineScenario(pFirst)
  /\ pFirst.text = <<" ", "\n", "a">>
  /\ pFirst.response = <<"a", "\n">>
  /\ pFirst.insertText = <<"a", "a">>

(***************************************************************************)
(* Claims about cancellation and the end of a call.                        *)
(***************************************************************************)
\* the token of call r is cancelled in this step, the call being at pc
CancelledAt(r, pc) ==
  /\ r <= Len(requests)
  /\ requests[r].pc = pc
  /\ ~requests[r].aborted
  /\ requests'[r].aborted

\* C24: a call whose token is cancelled before its timer fires has its timer
\* cleared and never calls the provider; for a call cancelled while provider.invoke
\* is in flight the signal given to invoke is aborted from then on; in both cases
\* the cancellation leaves the status icon out of its loading state
C24_CancelTakesEffect ==
  /\ [](\A r \in RequestIds :
          requests[r].pc = "cleared" => requests[r].invoked = "no" /\ requests[r].aborted)
  /\ [][\A r \in 1..MaxRequests :
          /\ CancelledAt(r, "debounce") =>
               requests'[r].pc = "cleared" /\ statusText' # "loading"
          /\ CancelledAt(r, "invoking") =>
               /\ requests'[r].pc = "invoking"
               /\ requests'[r].invoked = "live"
               /\ statusText' # "loading"
          /\ (r <= Len(requests) /\ requests[r].pc = "cleared") =>
               requests'[r] = requests[r]
          /\ (r <= Len(requests) /\ requests[r].aborted) => requests'[r].aborted]_vars

\* one call cancelled while its timer was pending, which is cleared, and another
\* cancelled while its provider call was in flight, whose signal is aborted
C24_Witness ==
  \E r, q \in RequestIds :
    /\ requests[r].pc = "cleared"
    /\ requests[r].invoked = "no"
    /\ requests[q].pc = "invoking"
    /\ requests[q].invoked = "live"
    /\ requests[q].aborted
    /\ statusText # "loading"

\* the timer of call r fires in this step for a document whose language is in
\* completions.disabled.languages
DisabledLanguageStep(r) ==
  /\ r <= Len(requests)
  /\ requests[r].pc = "debounce"
  /\ requests'[r].pc \notin {"debounce", "cleared"}
  /\ langDisabled

\* C29: a call whose generation starts while the document's language is in the
\* disabled list is answered in that step with the empty list and has called no
\* provider, whatever the state of the status icon and whenever the list was
\* changed; an answered call does nothing more
C29_DisabledLanguage ==
  [][\A r \in 1..MaxRequests :
       /\ DisabledLanguageStep(r) =>
            /\ requests'[r] = Request("resolved", "empty")
            /\ cacheFilled' = cacheFilled
       /\ (r <= Len(requests) /\ requests[r].pc = "resolved") =>
            requests'[r] = requests[r]]_vars

\* a call that went to the timer while the icon said enabled and a provider was
\* bound, and was answered with the empty list because the language had been
\* disabled in between
C29_Witness ==
  /\ Len(requests) = 1
  /\ allInWindow
  /\ requests[1] = Request("resolved", "empty")
  /\ langDisabled
  /\ providerPresent
  /\ statusState = "enabled"

\* C27: every call of provideInlineCompletionItems is eventually answered: its
\* promise resolves with a completion list, on a cache hit, after a generation
\* that succeeds or fails, and when its token is cancelled before or after its
\* timer fires
C27_AlwaysResolves ==
  \A r \in 1..MaxRequests :
    [](r \in RequestIds => <>(r \in RequestIds /\ requests[r].pc = "resolved"))

\* the lines of a prompt suffix that hold a character other than white space,
\* each as it stands in the suffix
RECURSIVE NonBlankLines(_)
NonBlankLines(lines) ==
  IF lines = <<>> THEN <<>>
  ELSE (IF Trim(Head(lines)) # <<>> THEN <<Head(lines)>> ELSE <<>>)
         \o NonBlankLines(Tail(lines))

\* C25: the stop sequences sent to the model are one line break when the cursor's
\* line has non-whitespace content and two otherwise, followed by the first
\* non-blank line of the prompt suffix whenever that suffix has at least one
\* non-blank line
C25_StopSequences ==
  \A g \in {pFirst, pGen} :
    g.phase = "done" =>
      LET first == IF Trim(g.lineText) # <<>> THEN <<"\n">> ELSE <<"\n", "\n">>
          lines == NonBlankLines(SplitLines(g.suffix))
      IN  /\ Len(g.stop) >= 1
          /\ g.stop[1] = first
          /\ Len(g.stop) = IF lines # <<>> THEN 2 ELSE 1
          /\ lines # <<>> => g.stop[2] \in {lines[1], Trim(lines[1])}

(***************************************************************************)
(* Claims about the registry and the store together.                       *)
(***************************************************************************)
\* C28: whenever no pass of updateProviders is running and no event waits for
\* one, every slot that is resolved in the registry is bound to a nickname whose
\* ModelConfig is stored and which is the nickname of the slot's stored preference
C28_ResolvedMatchesStore ==
  (inits = <<>> /\ signals = 0) =>
    \A loc \in LocationNames :
      modelProviders[loc] # NoAdapter =>
        /\ configs[modelProviders[loc].nickname] # NoConfig
        /\ prefs[loc] # NoPref
        /\ prefs[loc].nickname = modelProviders[loc].nickname

(***************************************************************************)
(* Claims about a call and the cache entry.                                *)
(***************************************************************************)
\* a new call of provideInlineCompletionItems arrives in this step
ArrivalStep ==
  /\ svCall.pc \in {"idle", "resolved", "cleared"}
  /\ svCall'.pc # "idle"
  /\ svDoc' = svDoc

\* the document text before and after an offset
TextBefore(text, pos) == SubSeq(text, 1, pos)

TextAfter(text, pos) == SubSeq(text, pos + 1, Len(text))

\* the cache holds the completion of a position: the cached prefix starts with
\* the text before it, the cached suffix is the text after it, and both hold a
\* character that is not white space
HoldsCompletionOf(cache, text, pos) ==
  /\ StartsWith(cache.prefix, TextBefore(text, pos))
  /\ cache.suffix = TextAfter(text, pos)
  /\ \E i \in 1..Len(cache.prefix) : ~IsSpace(cache.prefix[i])
  /\ \E i \in 1..Len(cache.suffix) : ~IsSpace(cache.suffix[i])

\* C21: a call that arrives while the icon is not disabled and the cache holds the
\* completion of its position is answered in that step with one item, whose text
\* is the cached prefix without the text before the cursor and whose range is the
\* empty range at the cursor; no timer is armed, the provider is not called, and
\* the cache entry stays as it was; the call does nothing afterwards
C21_CacheHitServed ==
  /\ [][(ArrivalStep /\ svIcon = "enabled"
           /\ HoldsCompletionOf(svCache, svDoc, svCall'.pos)) =>
          /\ svCall'.pc = "resolved"
          /\ svCall'.answer = "cached"
          /\ svCall'.insertText = TextAfter(svCache.prefix, svCall'.pos)
          /\ svCall'.rangeStart = svCall'.pos
          /\ svCall'.rangeEnd = svCall'.pos
          /\ ~svCall'.timer
          /\ ~svCall'.invoked
          /\ svCache' = svCache]_vars
  /\ [][(svCall.pc = "resolved" /\ svCall.answer = "cached" /\ svCall' # svCall) =>
          ArrivalStep /\ svCache' = svCache]_vars

\* a call answered from the cache with a text that is not empty
C21_Witness ==
  /\ svCall.pc = "resolved"
  /\ svCall.answer = "cached"
  /\ svCall.insertText # <<>>
  /\ svCall.insertText = TextAfter(svCache.prefix, svCall.pos)
  /\ HoldsCompletionOf(svCache, svDoc, svCall.pos)
  /\ ~svCall.timer
  /\ ~svCall.invoked

\* the generation of the call ends in this step with a completion: the model's
\* response is not empty
EmissionStep ==
  /\ svCall.pc = "generating"
  /\ svCall'.pc = "resolved"
  /\ svCall'.response # <<>>

\* the call ends in this step without a completion: an empty response, a failed
\* await, a cancelled timer, a disabled language or no provider
EndsWithoutEmission ==
  /\ svCall.pc \in {"debounce", "generating"}
  /\ svCall'.pc \in {"resolved", "cleared"}
  /\ svCall'.response = <<>>

\* C22: the cache entry changes only in a step in which a generation emits a
\* completion for a non-empty response; the entry is then the document text before
\* the insertion range followed by the inserted text, and the document text after
\* the insertion range; a call that ends in any other way leaves the entry alone
C22_EntryChangesOnEmission ==
  [][/\ svCache' # svCache => EmissionStep
     /\ EmissionStep =>
          svCache' = [prefix |-> TextBefore(svDoc, svCall'.rangeStart)
                                   \o svCall'.insertText,
                      suffix |-> TextAfter(svDoc, svCall'.rangeEnd)]
     /\ EndsWithoutEmission => svCache' = svCache]_vars

\* a completion emitted after the user typed into the document while the call
\* was pending, whose entry stands in the cache
C22_Witness ==
  /\ svCall.pc = "resolved"
  /\ svCall.answer = "list"
  /\ svCall.insertText # <<>>
  /\ Len(svDoc) = MaxServeDocLen + 1
  /\ svCache.prefix = TextBefore(svDoc, svCall.rangeStart) \o svCall.insertText
  /\ svCache.suffix = TextAfter(svDoc, svCall.rangeEnd)
  /\ svCache.suffix # <<>>

\* the text before the cursor on its line
LinePrefixOf(text, pos) == GetText(text, LineStart(text, pos), pos)

\* what the user sees suggested at the cursor: the inserted text of the item
\* without the text of the line it rewrites
SuggestedAt(text, pos, insertText) ==
  IF StartsWith(insertText, LinePrefixOf(text, pos))
  THEN TextAfter(insertText, Len(LinePrefixOf(text, pos)))
  ELSE insertText

\* the document after the user typed the first k characters of a suggestion at
\* the cursor
TypedForward(text, pos, suggestion, k) ==
  TextBefore(text, pos) \o SubSeq(suggestion, 1, k) \o TextAfter(text, pos)

\* C23: once a completion is emitted for a document and a cursor, a call made after
\* the user typed the first k characters of the suggestion at the cursor (for every
\* k from 0 to its length) hits the cache and gets the rest of the suggestion, at
\* every position of the cursor
C23_TypeForward ==
  [][EmissionStep =>
       LET suggestion == SuggestedAt(svDoc, svCall.pos, svCall'.insertText)
       IN  \A k \in 0..Len(suggestion) :
             LET again == CheckCompletionCache(
                            TypedForward(svDoc, svCall.pos, suggestion, k),
                            svCall.pos + k, svCache'.prefix, svCache'.suffix)
             IN  /\ again.kind = "hit"
                 /\ again.insertText = SubSeq(suggestion, k + 1, Len(suggestion))]_vars

\* the characters of s other than white space, in their order
RECURSIVE NonSpaceOf(_)
NonSpaceOf(s) ==
  IF s = <<>> THEN <<>>
  ELSE (IF IsSpace(Head(s)) THEN <<>> ELSE <<Head(s)>>) \o NonSpaceOf(Tail(s))

\* s can be read in t from left to right, each character of t used once
RECURSIVE IsReproducedIn(_, _)
IsReproducedIn(s, t) ==
  IF s = <<>> THEN TRUE
  ELSE IF t = <<>> THEN FALSE
  ELSE IF Head(s) = Head(t) THEN IsReproducedIn(Tail(s), Tail(t))
  ELSE IsReproducedIn(s, Tail(t))

\* C26: when the text after the cursor on its line has no alphanumeric character,
\* the insertion range grows over it from the cursor, and the characters other than
\* white space that it covers are reproduced, in their order, by the model output
C26_RangeExtension ==
  [][EmissionStep =>
       LET lineSuffix == GetText(svCall.text, svCall.pos,
                                 LineEnd(svCall.text, svCall.pos))
           covered    == SubSeq(lineSuffix, 1, svCall'.rangeEnd - svCall.pos)
       IN  /\ svCall'.rangeEnd >= svCall.pos
           /\ svCall'.rangeEnd <= svCall.pos + Len(lineSuffix)
           /\ ~HasAlnum(lineSuffix) =>
                IsReproducedIn(NonSpaceOf(covered), svCall'.response)]_vars

(***************************************************************************)
(* Claims about the session manager.                                       *)
(***************************************************************************)
\* every run of handleSessionChange has finished, its handleActiveSession included
AllRunsDone == \A r \in 1..Len(sessionRuns) : sessionRuns[r].pc = "done"

\* C30: once all runs of handleSessionChange have finished, the three session
\* features are all registered if the getSession that resolved last found a
\* session and all disposed if it found none, and the stored session is the one
\* that lookup found
C30_FeaturesFollowSession ==
  AllRunsDone =>
    /\ instances = IF lastLookup = "user" THEN SessionFeatures ELSE {}
    /\ storedSession = lastLookup

====
